---- MODULE Spec2Model ----
(***************************************************************************)
(* A model of the Playwright browser tools of langchain_community:         *)
(*                                                                         *)
(*   - the page script of extract_dom_tree.py (isInteractive,              *)
(*     isVisibleInViewport, extractNode and its children loop), run on     *)
(*     documents drawn from a bounded family of pages  (SpecDom);          *)
(*   - the element tools (click, input_text, drag_and_drop, scroll,        *)
(*     press_key, get_elements, extract_dom_tree) and the frame switch     *)
(*     of switch_frame.py, run on a page with a top-level document and     *)
(*     iframes  (Spec).                                                    *)
(*                                                                         *)
(* Every tool is modelled as constructed with a browser: the               *)
(* `sync_browser is None` branches are not part of these specifications.   *)
(***************************************************************************)
EXTENDS Integers, Sequences, FiniteSets, TLC

VARIABLES
    shape,        \* SpecDom: the parameters of the current document (see PageOf)
    dom,          \* SpecDom: document.body of the current page, a tree of DOM nodes
    calls,        \* SpecDom: what page.evaluate returned, per call since the page last changed
    page,         \* Spec: the page the tools drive (documents, frames, selector matches)
    activeFrame,  \* Spec: the _lc_active_frame attribute of the page object ("none" = absent)
    last,         \* Spec: the last tool call: its arguments, what it touched, what it returned
    tool_lock,    \* SpecLock: the asyncio.Lock shared by the wrapped tools
    task,         \* SpecLock: where each concurrent tool call stands in with_lock
    outcome       \* SpecLock: how each caller's last finished call ended

vars == <<shape, dom, calls, page, activeFrame, last, tool_lock, task, outcome>>
domVars == <<shape, dom, calls>>
toolVars == <<page, activeFrame, last>>
lockVars == <<tool_lock, task, outcome>>

(***************************************************************************)
(* DOM nodes.  Text is a sequence of one-character strings, so that        *)
(* trim() and length are computed and not assumed.                         *)
(***************************************************************************)
Rep(c, n) == [i \in 1..n |-> c]

NoAttrs == [a \in {} |-> ""]

Shown == [display |-> "block", visibility |-> "visible", opacity |-> "1"]
DisplayNone == [display |-> "none", visibility |-> "visible", opacity |-> "1"]

Window == [innerWidth |-> 1280, innerHeight |-> 720]
InView == [left |-> 10, top |-> 10, width |-> 100, height |-> 20]
BelowFold == [left |-> 10, top |-> 5000, width |-> 100, height |-> 20]
NoBox == [left |-> 0, top |-> 0, width |-> 0, height |-> 0]

Element(tag, attrs, style, rect, kids) ==
    [nodeType |-> "element", tagName |-> tag, attrs |-> attrs, style |-> style,
     rect |-> rect, handlers |-> {}, data |-> <<>>, childNodes |-> kids]

TextNode(chars) ==
    [nodeType |-> "text", tagName |-> "", attrs |-> NoAttrs, style |-> Shown,
     rect |-> NoBox, handlers |-> {}, data |-> chars, childNodes |-> <<>>]

hasAttribute(el, a) == a \in DOMAIN el.attrs
getAttribute(el, a) == IF a \in DOMAIN el.attrs THEN el.attrs[a] ELSE "null"

IsSpace(c) == c \in {" ", "\n", "\t"}

RECURSIVE TrimLeft(_)
TrimLeft(s) == IF s # <<>> /\ IsSpace(Head(s)) THEN TrimLeft(Tail(s)) ELSE s

RECURSIVE TrimRight(_)
TrimRight(s) ==
    IF s # <<>> /\ IsSpace(s[Len(s)]) THEN TrimRight(SubSeq(s, 1, Len(s) - 1)) ELSE s

Trim(s) == TrimRight(TrimLeft(s))

\* The operators over a list of child nodes recurse on the two halves of the list
\* [lo..hi]: the result is that of going through it left to right.
RECURSIVE textContent(_)
RECURSIVE textContentOfList(_, _, _)
textContentOfList(kids, lo, hi) ==
    IF lo > hi THEN <<>>
    ELSE IF lo = hi THEN textContent(kids[lo])
    ELSE LET mid == (lo + hi) \div 2
         IN  textContentOfList(kids, lo, mid) \o textContentOfList(kids, mid + 1, hi)
textContent(node) ==
    IF node.nodeType = "text" THEN node.data
    ELSE IF node.nodeType = "element"
         THEN textContentOfList(node.childNodes, 1, Len(node.childNodes))
    ELSE <<>>

\* node.children: the element children, in order.
children(node) == SelectSeq(node.childNodes, LAMBDA k : k.nodeType = "element")

\* node.querySelector(a list of tag names): is there a descendant element with one of the tags.
RECURSIVE hasDescendantTag(_, _)
hasDescendantTag(node, tags) ==
    \E i \in 1..Len(node.childNodes) :
        LET k == node.childNodes[i]
        IN  \/ (k.nodeType = "element" /\ k.tagName \in tags)
            \/ hasDescendantTag(k, tags)

(***************************************************************************)
(* The classifier of extract_dom_tree.py.                                  *)
(***************************************************************************)
interactiveTags == {"a", "button", "input", "select", "textarea", "option",
                    "label", "form", "summary"}
interactiveAttrs == {"onclick", "onchange", "onsubmit", "role", "tabindex",
                     "contenteditable", "href", "data-action"}
interactiveRoles == {"button", "link", "checkbox", "dialog", "menuitem", "tab",
                     "radio", "combobox", "search"}

isInteractive(element) ==
    \/ element.tagName \in interactiveTags
    \/ \E a \in interactiveAttrs : hasAttribute(element, a)
    \/ element.handlers \cap {"onclick", "onchange", "onsubmit"} # {}
    \/ getAttribute(element, "role") \in interactiveRoles

isVisibleInViewport(element) ==
    IF \/ element.style.display = "none"
       \/ element.style.visibility = "hidden"
       \/ element.style.opacity = "0"
    THEN FALSE
    ELSE /\ element.rect.width > 0
         /\ element.rect.height > 0
         /\ element.rect.top < Window.innerHeight
         /\ element.rect.top + element.rect.height > 0
         /\ element.rect.left < Window.innerWidth
         /\ element.rect.left + element.rect.width > 0

\* getInteractionType that calls every element it has no name for clickable.
getInteractionTypeClickable(element) ==
    LET tagName == element.tagName
        role == getAttribute(element, "role")
        type == getAttribute(element, "type")
    IN  IF tagName = "a" \/ role = "link" THEN "link"
        ELSE IF tagName = "button" \/ role = "button" THEN "button"
        ELSE IF tagName = "input" /\ type \in {"text", "search", "number", "email", "password"}
             THEN "input"
        ELSE IF tagName = "input" /\ type = "checkbox" THEN "checkbox"
        ELSE IF tagName = "input" /\ type = "radio" THEN "radio"
        ELSE IF tagName = "input" /\ type \in {"submit", "button"} THEN "button"
        ELSE IF tagName = "textarea" THEN "input"
        ELSE IF tagName = "select" \/ role = "combobox" THEN "select"
        ELSE "clickable"

getInteractionType(element) ==
    LET tagName == element.tagName
        role == getAttribute(element, "role")
        type == getAttribute(element, "type")
    IN  IF tagName = "a" \/ role = "link" THEN "link"
        ELSE IF tagName = "button" \/ role = "button" THEN "button"
        ELSE IF tagName = "input" /\ type \in {"text", "search", "number", "email", "password"}
             THEN "input"
        ELSE IF tagName = "input" /\ type = "checkbox" THEN "checkbox"
        ELSE IF tagName = "input" /\ type = "radio" THEN "radio"
        ELSE IF tagName = "input" /\ type \in {"submit", "button"} THEN "button"
        ELSE IF tagName = "textarea" THEN "input"
        ELSE IF tagName = "select" \/ role = "combobox" THEN "select"
        ELSE IF "onclick" \in element.handlers \/ hasAttribute(element, "onclick")
             THEN "clickable"
        ELSE "interactive"

landmarkTags == {"header", "nav", "footer", "main"}
landmarkRoles == {"navigation", "banner", "main", "contentinfo"}
isLandmark(node) ==
    \/ node.tagName \in landmarkTags
    \/ getAttribute(node, "role") \in landmarkRoles

skippedTags == {"style", "svg", "script", "noscript", "path", "link", "meta"}

maxDepth == 4

maxChildren(depth) ==
    IF depth = 0 THEN 100 ELSE IF depth = 1 THEN 30 ELSE IF depth = 2 THEN 20 ELSE 10

Null == [type |-> "null"]


(***************************************************************************)
(* The snapshot tree.  An entry of `children` is a node summary            *)
(* (type "node"), a text fragment (type "text") or a truncation marker     *)
(* (type "truncated").  `path` is not part of the script's output: it      *)
(* records which DOM node a summary was made from (the child indexes from  *)
(* the body down), so that properties can relate the two trees.  An        *)
(* optional field is a sequence of length 0 or 1.                          *)
(***************************************************************************)
RECURSIVE innerTextOfList(_, _, _)
innerTextOfList(kids, lo, hi) ==
    IF lo > hi THEN <<>>
    ELSE IF lo = hi
         THEN LET k == kids[lo]
              IN  IF k.nodeType = "text" THEN k.data
                  ELSE IF k.nodeType = "element" /\ k.style.display # "none"
                       THEN innerTextOfList(k.childNodes, 1, Len(k.childNodes))
                  ELSE <<>>
    ELSE LET mid == (lo + hi) \div 2
         IN  innerTextOfList(kids, lo, mid) \o innerTextOfList(kids, mid + 1, hi)

\* element.innerText: the rendered text; of an element that is not rendered, its textContent.
innerText(element) ==
    IF element.style.display = "none" THEN textContent(element)
    ELSE innerTextOfList(element.childNodes, 1, Len(element.childNodes))

Ellipsis == <<".", ".", ".">>

getSimplifiedText(element) ==
    LET text == Trim(innerText(element))
    IN  IF text = <<>> THEN <<>>
        ELSE IF Len(text) > 100 THEN SubSeq(text, 1, 100) \o Ellipsis ELSE text

\* selectors without the slice.
sliceNone(selectors) == selectors

\* selectors.slice(0, 3)
sliceTop(selectors) ==
    SubSeq(selectors, 1, IF Len(selectors) < 3 THEN Len(selectors) ELSE 3)

getSelectorSuggestions(element) ==
    LET tagName == element.tagName
        byId == IF hasAttribute(element, "id") /\ element.attrs["id"] # ""
                THEN <<[by |-> "id", tag |-> "", value |-> <<element.attrs["id"]>>]>>
                ELSE <<>>
        byName == IF hasAttribute(element, "name") /\ element.attrs["name"] # ""
                  THEN <<[by |-> "name", tag |-> tagName, value |-> <<element.attrs["name"]>>]>>
                  ELSE <<>>
        byTestId == IF hasAttribute(element, "data-testid") /\ element.attrs["data-testid"] # ""
                    THEN <<[by |-> "data-testid", tag |-> "",
                            value |-> <<element.attrs["data-testid"]>>]>>
                    ELSE <<>>
        buttonText == Trim(innerText(element))
        byText == IF tagName \in {"button", "a"} /\ buttonText # <<>> /\ Len(buttonText) < 20
                  THEN <<[by |-> "has-text", tag |-> tagName, value |-> buttonText]>>
                  ELSE <<>>
        byType == IF tagName = "input" /\ hasAttribute(element, "type")
                     /\ element.attrs["type"] # ""
                  THEN <<[by |-> "type", tag |-> "input", value |-> <<element.attrs["type"]>>]>>
                  ELSE <<>>
        selectors == byId \o byName \o byTestId \o byText \o byType
    IN  sliceTop(selectors)

TruncationMarker(omitted) == [type |-> "truncated", omitted |-> omitted]

\* skippedAsInvisible without the exemption of the landmarks.
skippedAsInvisibleNoLandmarks(node) ==
    /\ ~isVisibleInViewport(node)
    /\ ~isInteractive(node)
    /\ ~hasDescendantTag(node, {"button", "a", "input", "select", "textarea"})

\* The visibility rule of extractNode: TRUE when the node is dropped by it.
skippedAsInvisible(node) ==
    /\ ~isVisibleInViewport(node)
    /\ ~isInteractive(node)
    /\ ~hasDescendantTag(node, {"button", "a", "input", "select", "textarea"})
    /\ node.tagName \notin landmarkTags
    /\ getAttribute(node, "role") \notin landmarkRoles

\* deeperLevels with the body's children counted among the deeper levels.
deeperLevelsFromOne(depth) == depth > 0

\* if (depth > 1): the levels at which the less important elements are skipped.
deeperLevels(depth) == depth > 1

\* Is there an interactive element below the node, at any nesting level.
RECURSIVE hasInteractiveDescendant(_)
hasInteractiveDescendant(node) ==
    \E i \in 1..Len(node.childNodes) :
        LET k == node.childNodes[i]
        IN  k.nodeType = "element" /\ (isInteractive(k) \/ hasInteractiveDescendant(k))

\* The text of the node's own text nodes.
ownText(node) ==
    textContentOfList(SelectSeq(node.childNodes, LAMBDA k : k.nodeType = "text"), 1,
                      Len(SelectSeq(node.childNodes, LAMBDA k : k.nodeType = "text")))

\* skippedAsContainer that looks for interactive elements at every level below the
\* node and counts the node's own text only.
skippedAsContainerByDescendants(node) ==
    /\ node.tagName \in {"div", "span"}
    /\ ~isInteractive(node)
    /\ ~hasInteractiveDescendant(node)
    /\ Len(Trim(ownText(node))) < 5

\* The rule for div and span: TRUE when the node has nothing interactive and no text.
skippedAsContainer(node) ==
    /\ node.tagName \in {"div", "span"}
    /\ ~isInteractive(node)
    /\ ~\E i \in 1..Len(children(node)) : isInteractive(children(node)[i])
    /\ Len(Trim(textContent(node))) < 5

\* The rules of extractNode that apply at depth > 1 only: TRUE when the node is dropped.
skippedAsDeep(node, depth) ==
    /\ deeperLevels(depth)
    /\ \/ node.tagName \in skippedTags
       \/ skippedAsContainer(node)

\* tooDeep with the limit one level further down.
tooDeepByOne(depth) == depth > maxDepth + 1

\* if (depth > maxDepth) return null
tooDeep(depth) == depth > maxDepth

RECURSIVE extractNode(_, _, _)
RECURSIVE extractChildren(_, _, _, _, _, _)

\* childrenLoopBody with `>` for `>=` in the test of the cap.
childrenLoopBodyOffByOne(node, depth, path, i, st) ==
    IF st.broke THEN st
    ELSE IF st.childrenCount > maxChildren(depth)
         THEN [st EXCEPT
                 !.children = Append(@, TruncationMarker(Len(node.childNodes)
                                                           - maxChildren(depth))),
                 !.broke = TRUE]
    ELSE LET childResult == extractNode(node.childNodes[i], depth + 1, Append(path, i))
         IN  IF childResult.type # "null"
             THEN [st EXCEPT !.children = Append(@, childResult),
                             !.childrenCount = @ + 1]
             ELSE st

\* childrenLoopBody that breaks at the cap without pushing the marker.
childrenLoopBodyNoMarker(node, depth, path, i, st) ==
    IF st.broke THEN st
    ELSE IF st.childrenCount >= maxChildren(depth)
         THEN [st EXCEPT !.broke = TRUE]
    ELSE LET childResult == extractNode(node.childNodes[i], depth + 1, Append(path, i))
         IN  IF childResult.type # "null"
             THEN [st EXCEPT !.children = Append(@, childResult),
                             !.childrenCount = @ + 1]
             ELSE st

\* One iteration of the children loop of extractNode, for child node i.  The loop
\* state `st` is the children list built so far, childrenCount, and whether the loop
\* has hit its break.
\* childrenLoopBody whose marker counts the child nodes from the breaking one on.
childrenLoopBodyCountsRemainder(node, depth, path, i, st) ==
    IF st.broke THEN st
    ELSE IF st.childrenCount >= maxChildren(depth)
         THEN [st EXCEPT
                 !.children = Append(@, TruncationMarker(Len(node.childNodes) - i + 1)),
                 !.broke = TRUE]
    ELSE LET childResult == extractNode(node.childNodes[i], depth + 1, Append(path, i))
         IN  IF childResult.type # "null"
             THEN [st EXCEPT !.children = Append(@, childResult),
                             !.childrenCount = @ + 1]
             ELSE st

childrenLoopBody(node, depth, path, i, st) ==
    IF st.broke THEN st
    ELSE IF st.childrenCount >= maxChildren(depth)
         THEN [st EXCEPT
                 !.children = Append(@, TruncationMarker(Len(node.childNodes)
                                                           - maxChildren(depth))),
                 !.broke = TRUE]
    ELSE LET childResult == extractNode(node.childNodes[i], depth + 1, Append(path, i))
         IN  IF childResult.type # "null"
             THEN [st EXCEPT !.children = Append(@, childResult),
                             !.childrenCount = @ + 1]
             ELSE st

\* The children loop over the child nodes lo..hi, in order, from loop state `st`.
extractChildren(node, depth, path, lo, hi, st) ==
    IF lo > hi THEN st
    ELSE IF lo = hi THEN childrenLoopBody(node, depth, path, lo, st)
    ELSE LET mid == (lo + hi) \div 2
             left == extractChildren(node, depth, path, lo, mid, st)
         IN  IF left.broke THEN left
             ELSE extractChildren(node, depth, path, mid + 1, hi, left)

\* hasPosition without the condition on the node's kind and depth.
hasPositionWhenVisible(node, depth) == isVisibleInViewport(node)

\* The condition under which extractNode records result.position.
hasPosition(node, depth) ==
    isVisibleInViewport(node) /\ (isInteractive(node) \/ depth <= 1)

extractNode(node, depth, path) ==
    IF tooDeep(depth) THEN Null
    ELSE IF node.nodeType # "element"
         THEN IF node.nodeType = "text" /\ Len(Trim(node.data)) > 3 /\ depth <= 2
              THEN LET text == Trim(node.data)
                   IN  [type |-> "text",
                        path |-> path,
                        content |-> IF Len(text) > 50 THEN SubSeq(text, 1, 50) \o Ellipsis
                                    ELSE text]
              ELSE Null
    ELSE IF skippedAsInvisible(node) THEN Null
    ELSE IF skippedAsDeep(node, depth) THEN Null
    ELSE [type |-> "node",
          path |-> path,
          tag |-> node.tagName,
          text |-> getSimplifiedText(node),
          position |-> IF hasPosition(node, depth)
                       THEN <<[x |-> node.rect.left, y |-> node.rect.top,
                               width |-> node.rect.width, height |-> node.rect.height,
                               inViewport |-> TRUE]>>
                       ELSE <<>>,
          interactive |-> isInteractive(node),
          interactionType |-> IF isInteractive(node) THEN getInteractionType(node) ELSE "none",
          selectors |-> IF isInteractive(node) THEN getSelectorSuggestions(node) ELSE <<>>,
          children |-> extractChildren(node, depth, path, 1, Len(node.childNodes),
                                       [children |-> <<>>, childrenCount |-> 0,
                                        broke |-> FALSE]).children]

(***************************************************************************)
(* The rest of the page script: page sections, forms, search boxes and     *)
(* metadata.  querySelectorAll is document order (pre-order) over the      *)
(* elements; each entry carries whether the element lies inside a <form>.  *)
(* A class attribute is modelled as holding one class name.                *)
(***************************************************************************)
\* elementsIn that leaves out the elements with display: none and what is in them.
RECURSIVE elementsInShown(_, _, _, _)
elementsInShown(kids, lo, hi, inForm) ==
    IF lo > hi THEN <<>>
    ELSE IF lo = hi
         THEN LET k == kids[lo]
              IN  IF k.nodeType = "element" /\ k.style.display # "none"
                  THEN <<[el |-> k, inForm |-> inForm]>>
                       \o elementsInShown(k.childNodes, 1, Len(k.childNodes),
                                          inForm \/ k.tagName = "form")
                  ELSE <<>>
    ELSE LET mid == (lo + hi) \div 2
         IN  elementsInShown(kids, lo, mid, inForm)
             \o elementsInShown(kids, mid + 1, hi, inForm)

\* The elements among kids[lo..hi] and below them, in document order, each with whether
\* it lies in a <form>: what document.forms and document.querySelectorAll go through.
RECURSIVE elementsIn(_, _, _, _)
elementsIn(kids, lo, hi, inForm) ==
    IF lo > hi THEN <<>>
    ELSE IF lo = hi
         THEN LET k == kids[lo]
              IN  IF k.nodeType = "element"
                  THEN <<[el |-> k, inForm |-> inForm]>>
                       \o elementsIn(k.childNodes, 1, Len(k.childNodes),
                                     inForm \/ k.tagName = "form")
                  ELSE <<>>
    ELSE LET mid == (lo + hi) \div 2
         IN  elementsIn(kids, lo, mid, inForm) \o elementsIn(kids, mid + 1, hi, inForm)

\* The elements of the document under (and including) the body, in document order.
documentElements(body) ==
    <<[el |-> body, inForm |-> FALSE]>>
    \o elementsIn(body.childNodes, 1, Len(body.childNodes), FALSE)

\* Attribute values that contain "search", whatever the case (the `*= ... i` selectors).
SearchPhrases == {"Search", "Search...", "search the site"}

matchesSection(name, e) ==
    LET tag == e.el.tagName
        role == getAttribute(e.el, "role")
        class == getAttribute(e.el, "class")
        id == getAttribute(e.el, "id")
    IN  CASE name = "header" ->
               tag = "header" \/ role = "banner" \/ class = "header" \/ id = "header"
          [] name = "navigation" ->
               tag = "nav" \/ role = "navigation" \/ class \in {"nav", "navigation"} \/ id = "nav"
          [] name = "main" ->
               \/ tag \in {"main", "article"} \/ role = "main"
               \/ class \in {"main", "content"} \/ id \in {"main", "content"}
          [] name = "search" ->
               \/ (tag = "input" /\ getAttribute(e.el, "type") = "search")
               \/ (tag = "input" /\ e.inForm /\ getAttribute(e.el, "name") = "q")
               \/ class \in {"search-form", "searchform"}
          [] name = "footer" ->
               tag = "footer" \/ role = "contentinfo" \/ class = "footer" \/ id = "footer"

sectionNames == {"header", "navigation", "main", "search", "footer"}

\* identifyPageSections: per section name, how many elements match (names without a
\* match are left out of the result).
identifyPageSections(body) ==
    LET all == documentElements(body)
        count(name) == Cardinality({i \in 1..Len(all) : matchesSection(name, all[i])})
        found == {name \in sectionNames : count(name) > 0}
    IN  [name \in found |-> count(name)]

\* analyzeForms: one entry per <form>, with the fields found inside it.
analyzeForms(body) ==
    LET all == documentElements(body)
        forms == SelectSeq(all, LAMBDA e : e.el.tagName = "form")
        inputsOf(form) ==
            SelectSeq(elementsIn(form.childNodes, 1, Len(form.childNodes), TRUE),
                      LAMBDA e : \/ e.el.tagName \in {"input", "select", "textarea"}
                                 \/ (e.el.tagName = "button"
                                     /\ getAttribute(e.el, "type") = "submit"))
        \* input.type: the type property (an input without the attribute is "text").
        typeOf(el) == IF hasAttribute(el, "type") THEN el.attrs["type"]
                      ELSE IF el.tagName = "input" THEN "text"
                      ELSE IF el.tagName = "button" THEN "submit"
                      ELSE el.tagName
        isSubmit(e) == typeOf(e.el) \in {"submit", "image", "reset", "button"}
        formInfo(form) ==
            LET inputs == inputsOf(form)
                submits == SelectSeq(inputs, isSubmit)
                fields == SelectSeq(inputs, LAMBDA e : ~isSubmit(e))
            IN  [id |-> getAttribute(form, "id"),
                 method |-> IF hasAttribute(form, "method") THEN form.attrs["method"]
                            ELSE "get",
                 fields |-> [i \in 1..Len(fields) |->
                               [name |-> getAttribute(fields[i].el, "name"),
                                type |-> typeOf(fields[i].el),
                                id |-> getAttribute(fields[i].el, "id")]],
                 \* each submit control overwrites submitButton: the last one stays
                 submitButton |-> IF submits = <<>> THEN <<>>
                                  ELSE <<typeOf(submits[Len(submits)].el)>>]
    IN  [i \in 1..Len(forms) |-> formInfo(forms[i].el)]

searchSelectors == <<"input[type=search]", "input[name=q]", "input[name=query]",
                     "input[placeholder*=Search i]", "input[aria-label*=Search i]",
                     "form input[type=text]">>

matchesSearchSelector(selector, e) ==
    /\ e.el.tagName = "input"
    /\ CASE selector = "input[type=search]" -> getAttribute(e.el, "type") = "search"
         [] selector = "input[name=q]" -> getAttribute(e.el, "name") = "q"
         [] selector = "input[name=query]" -> getAttribute(e.el, "name") = "query"
         [] selector = "input[placeholder*=Search i]" ->
              getAttribute(e.el, "placeholder") \in SearchPhrases
         [] selector = "input[aria-label*=Search i]" ->
              getAttribute(e.el, "aria-label") \in SearchPhrases
         [] selector = "form input[type=text]" ->
              e.inForm /\ getAttribute(e.el, "type") = "text"

RECURSIVE findSearchBoxes(_, _)
findSearchBoxes(body, s) ==
    IF s > Len(searchSelectors) THEN <<>>
    ELSE LET selector == searchSelectors[s]
             hits == SelectSeq(documentElements(body),
                               LAMBDA e : matchesSearchSelector(selector, e))
         IN  [i \in 1..Len(hits) |->
                [tag |-> hits[i].el.tagName,
                 type |-> getAttribute(hits[i].el, "type"),
                 name |-> getAttribute(hits[i].el, "name"),
                 id |-> getAttribute(hits[i].el, "id"),
                 placeholder |-> getAttribute(hits[i].el, "placeholder"),
                 selector |-> selector]]
             \o findSearchBoxes(body, s + 1)

\* What the document says of itself outside the body.
Document == [href |-> "https://shop.example/catalog", title |-> "Catalog",
             lang |-> "en", urlOrTitleMentionsSearch |-> FALSE]

\* The arrow function of _dom_extract_script, on a document with a body.
DomExtractScript(body) ==
    LET all == documentElements(body)
        isSearchPage ==
            \/ Document.urlOrTitleMentionsSearch
            \/ \E i \in 1..Len(all) :
                  \/ matchesSearchSelector("input[type=search]", all[i])
                  \/ matchesSearchSelector("input[name=q]", all[i])
        searchBoxes == findSearchBoxes(body, 1)
    IN  [metadata |-> [url |-> Document.href, title |-> Document.title,
                       lang |-> Document.lang,
                       pageType |-> IF isSearchPage THEN "search" ELSE "null"],
         pageSections |-> identifyPageSections(body),
         searchBoxes |-> SubSeq(searchBoxes, 1,
                                IF Len(searchBoxes) < 3 THEN Len(searchBoxes) ELSE 3),
         forms |-> analyzeForms(body),
         body |-> extractNode(body, 0, <<>>)]

(***************************************************************************)
(* The pages of SpecDom.  A page is a chain of nested sections from the    *)
(* body down to one wide node at depth `wideDepth`, which has              *)
(* maxChildren(wideDepth) + extra child nodes: visible buttons, and one    *)
(* special child, first or last among them.                                *)
(***************************************************************************)
MaxExtra == 2
MaxCalls == 2

Chars(word) ==
    CASE word = "Site menu" -> <<"S", "i", "t", "e", " ", "m", "e", "n", "u">>
      [] word = "Go" -> <<"G", "o">>
      [] word = "blank" -> <<" ", "\n", " ">>

Button == Element("button", NoAttrs, Shown, InView, <<>>)

Nav(style, rect) == Element("nav", NoAttrs, style, rect, <<TextNode(Chars("Site menu"))>>)

Section(kids) == Element("section", NoAttrs, Shown, InView, kids)

SearchForm ==
    Element("form", [a \in {"id"} |-> "find"], Shown, InView,
            <<Element("input",
                      [a \in {"type", "name", "id", "placeholder", "aria-label"} |->
                         CASE a = "type" -> "search"
                           [] a \in {"name", "id"} -> "q"
                           [] OTHER -> "Search..."],
                      Shown, InView, <<>>),
              Element("button", [a \in {"type"} |-> "submit"], Shown, InView,
                      <<TextNode(Chars("Go"))>>)>>)

Specials == {"button", "whitespace", "words", "hiddenDiv", "navBelowFold",
             "navInHiddenDiv", "navNested", "bannerRole", "searchForm",
             "fullButton", "longButton", "typedInput", "searchFormInHiddenDiv",
             "svgIcon", "linkHref", "divDeepInput", "divDeepWords", "divShortText",
             "divButton"}

SpecialNode(special) ==
    CASE special = "button" -> Button
      [] special = "whitespace" -> TextNode(Chars("blank"))
      [] special = "words" -> TextNode(Rep("w", 60))
      [] special = "hiddenDiv" -> Element("div", NoAttrs, DisplayNone, NoBox, <<>>)
      [] special = "navBelowFold" -> Nav(Shown, BelowFold)
      [] special = "navInHiddenDiv" ->
           Element("div", NoAttrs, DisplayNone, NoBox, <<Nav(Shown, NoBox)>>)
      [] special = "navNested" ->
           Section(<<Section(<<Section(<<Section(<<Nav(Shown, InView)>>)>>)>>)>>)
      [] special = "bannerRole" ->
           Element("div", [a \in {"role"} |-> "banner"], Shown, BelowFold, <<>>)
      [] special = "fullButton" ->
           Element("button", [a \in {"id", "name", "data-testid"} |-> "buy"], Shown, InView,
                   <<TextNode(Chars("Go"))>>)
      [] special = "longButton" ->
           Element("button", [a \in {"data-testid"} |-> "more"], Shown, InView,
                   <<TextNode(Rep("w", 20))>>)
      [] special = "typedInput" ->
           Element("input",
                   [a \in {"type", "name", "data-testid"} |->
                      IF a = "type" THEN "email" ELSE "mail"],
                   Shown, InView, <<>>)
      [] special = "searchForm" -> SearchForm
      [] special = "searchFormInHiddenDiv" ->
           Element("div", NoAttrs, DisplayNone, NoBox, <<SearchForm>>)
      [] special = "svgIcon" -> Element("svg", NoAttrs, Shown, InView, <<>>)
      [] special = "linkHref" ->
           Element("link", [a \in {"href"} |-> "print.css"], DisplayNone, NoBox, <<>>)
      [] special = "divDeepInput" ->
           Element("div", NoAttrs, Shown, InView,
                   <<Section(<<Element("input", [a \in {"type"} |-> "text"], Shown, InView,
                                       <<>>)>>)>>)
      [] special = "divDeepWords" ->
           Element("div", NoAttrs, Shown, InView, <<Section(<<TextNode(Rep("w", 6))>>)>>)
      [] special = "divShortText" ->
           Element("div", NoAttrs, Shown, InView, <<TextNode(Chars("Go"))>>)
      [] special = "divButton" -> Element("div", NoAttrs, Shown, InView, <<Button>>)

Shapes == [wideDepth : 0..3, extra : -1..MaxExtra, special : Specials,
           at : {"first", "last"}]

Width(s) == maxChildren(s.wideDepth) + s.extra
SpecialAt(s) == IF s.at = "first" THEN 1 ELSE Width(s)
\* The path of the wide node, and of its special child.
WidePath(s) == [i \in 1..s.wideDepth |-> 1]
SpecialPath(s) == Append(WidePath(s), SpecialAt(s))

RECURSIVE ChainOf(_, _)
ChainOf(s, depth) ==
    LET kids == IF depth = s.wideDepth
                THEN [i \in 1..Width(s) |->
                        IF i = SpecialAt(s) THEN SpecialNode(s.special) ELSE Button]
                ELSE <<ChainOf(s, depth + 1)>>
    IN  Element(IF depth = 0 THEN "body" ELSE "section", NoAttrs, Shown, InView, kids)

PageOf(s) == ChainOf(s, 0)

(***************************************************************************)
(* SpecDom: the page script run on the pages above.                        *)
(***************************************************************************)
\* A script that scrolls the document while reading it.
documentAfterScriptScrolled(body) == [body EXCEPT !.rect = BelowFold]

\* The document after the script ran: the script only reads the document.
documentAfterScript(body) == body

\* page.evaluate(self._dom_extract_script()) in ExtractDOMTreeTool._run / _arun.
EvaluateScript ==
    /\ Len(calls) < MaxCalls
    /\ calls' = Append(calls, DomExtractScript(dom))
    /\ dom' = documentAfterScript(dom)
    /\ UNCHANGED <<shape, toolVars, lockVars>>

\* The page changes between two tool calls: one parameter of its shape changes.
MutateDom ==
    /\ \E s \in Shapes :
          /\ s # shape
          /\ Cardinality({f \in DOMAIN s : s[f] # shape[f]}) = 1
          /\ shape' = s
          /\ dom' = PageOf(s)
    /\ calls' = <<>>
    /\ UNCHANGED <<toolVars, lockVars>>

(***************************************************************************)
(* The lock of the agent script.  wrap_tools_with_lock replaces the _arun  *)
(* of every tool by with_lock, which runs the original coroutine inside    *)
(* `async with tool_lock`.  The lock is a flag and a first-in first-out    *)
(* queue of waiting callers; a release clears the flag and wakes the head  *)
(* of the queue, which takes the lock when the event loop resumes it.      *)
(***************************************************************************)
MaxTasks == 3
Tasks == 1..MaxTasks

Unlocked == [locked |-> FALSE, waiters |-> <<>>, woken |-> FALSE]

\* Lock.acquire takes the lock at once only when it is free and nobody waits.
acquiresAtOnce(lock) == ~lock.locked /\ lock.waiters = <<>>
acquireAtOnce(lock) == [lock EXCEPT !.locked = TRUE]
enqueue(lock, t) == [lock EXCEPT !.waiters = Append(@, t)]
\* The head waiter, woken by a release, leaves the queue and takes the lock.
acquireWoken(lock) == [locked |-> TRUE, waiters |-> Tail(lock.waiters), woken |-> FALSE]

\* Lock.release: clear the flag and wake the first waiter, if any.
release(lock) == [lock EXCEPT !.locked = FALSE, !.woken = (lock.waiters # <<>>)]
releaseOnReturnOnly(lock, how) == IF how = "raised" THEN lock ELSE release(lock)
\* Leaving `async with tool_lock`, by return or by exception, releases the lock.
exitWithLock(lock, how) == release(lock)

LockIdle ==
    /\ tool_lock = Unlocked
    /\ task = [t \in Tasks |-> "idle"]
    /\ outcome = [t \in Tasks |-> "none"]

ToolsIdle ==
    /\ page = "about:blank"
    /\ activeFrame = "none"
    /\ last = "none"

InitDom ==
    /\ shape \in Shapes
    /\ dom = PageOf(shape)
    /\ calls = <<>>
    /\ ToolsIdle
    /\ LockIdle

NextDom == EvaluateScript \/ MutateDom

SpecDom == InitDom /\ [][NextDom]_vars

(***************************************************************************)
(* The page of Spec.  Its top-level document holds, in document order: a   *)
(* div of class "ads", the buttons of class "item" (each visible or        *)
(* hidden), two visible divs of class "slot", the input #q, and one        *)
(* iframe (name "pay", id "widget", class "ads").  The iframe's document   *)
(* holds one visible button of class "item" and an input #q.               *)
(*   page.items    the visibility of the "item" buttons, in document order *)
(***************************************************************************)
MaxMatches == 2

El(tag, id, class, name, visible) ==
    [tag |-> tag, id |-> id, class |-> class, name |-> name, visible |-> visible]

TopDocument(pg) ==
    <<El("div", "", "ads", "", TRUE)>>
    \o [i \in 1..Len(pg.items) |-> El("button", "", "item", "", pg.items[i])]
    \o <<El("div", "", "slot", "", TRUE), El("div", "", "slot", "", TRUE),
         El("input", "q", "", "", TRUE),
         El("iframe", "widget", "ads", "pay", TRUE)>>

FrameDocument == <<El("button", "", "item", "", TRUE), El("input", "q", "", "", TRUE)>>

\* The elements of a document context: "top", or the name of a frame.
DocumentOf(pg, ctx) == IF ctx = "top" THEN TopDocument(pg) ELSE FrameDocument

Pages == [items : UNION {[1..n -> BOOLEAN] : n \in 0..MaxMatches}]

\* A CSS selector as the parts it constrains ("" = unconstrained); `valid` is FALSE
\* for a string that is no selector, on which the driver raises.
Css(tag, id, class, name) ==
    [tag |-> tag, id |-> id, class |-> class, name |-> name, valid |-> TRUE]
InvalidCss == [tag |-> "", id |-> "", class |-> "", name |-> "", valid |-> FALSE]

\* The selector and identifier strings of the model, parsed as CSS.
ParseCss(s) ==
    CASE s = ".item" -> Css("", "", "item", "")
      [] s = ".slot" -> Css("", "", "slot", "")
      [] s = ".ads" -> Css("", "", "ads", "")
      [] s = "#q" -> Css("", "q", "", "")
      [] s = "#none" -> Css("", "none", "", "")
      [] s = "#widget" -> Css("", "widget", "", "")
      [] s = "widget" -> Css("widget", "", "", "")
      [] s = "pay" -> Css("pay", "", "", "")
      [] s = "ghost" -> Css("ghost", "", "", "")
      [] OTHER -> InvalidCss

matchesCss(el, css) ==
    /\ css.tag \in {"", el.tag}
    /\ css.id \in {"", el.id}
    /\ css.class \in {"", el.class}
    /\ css.name \in {"", el.name}

\* The positions in the document of the elements a selector matches, in document order.
RECURSIVE matchesFrom(_, _, _)
matchesFrom(doc, css, i) ==
    IF i > Len(doc) THEN <<>>
    ELSE (IF matchesCss(doc[i], css) THEN <<i>> ELSE <<>>) \o matchesFrom(doc, css, i + 1)
Matches(doc, css) == matchesFrom(doc, css, 1)

VisibleMatches(doc, css) == SelectSeq(Matches(doc, css), LAMBDA i : doc[i].visible)

(***************************************************************************)
(* The element tools.  Each _run / _arun is an operator from the page, the *)
(* arguments of the call and what the driver does in it to the outcome of  *)
(* the call:                                                               *)
(*   status  the string returned (its fixed part)                          *)
(*   ctx     the document the call resolved its selectors against          *)
(*   events  the interactions with the page, in order; `el` and `to` are   *)
(*           positions in that document (0 = none)                         *)
(* What the driver does is an input of the call: `drv` is how the native   *)
(* interaction ends ("ok", "timeout", "error"), `scrollHidden` how         *)
(* scroll_into_view_if_needed ends on an element that is not visible.      *)
(***************************************************************************)
MaxNth == 2

Event(op, el, to) == [op |-> op, el |-> el, to |-> to]

Outcome(status, ctx, events) == [status |-> status, ctx |-> ctx, events |-> events]

\* get_current_page(browser) and the page.locator / page.click / page.evaluate calls
\* made on it: the tools never read the page's _lc_active_frame attribute, the page
\* object resolves against its main frame.
resolveContext(active) == "top"

\* locator.first, and the element page.click / page.focus act on: the first match,
\* 0 when there is none.
locatorFirst(matches, nth) == IF matches # <<>> THEN matches[1] ELSE 0

\* locator.nth(nth or 0) with the index dropped.
locatorNthIsFirst(matches, nth) == IF matches # <<>> THEN matches[1] ELSE 0

\* locator.nth(nth or 0): the position of the nth match, 0 when there is none.
locatorNth(matches, nth) == IF nth < Len(matches) THEN matches[nth + 1] ELSE 0

\* page.wait_for_selector(selector): succeeds when the first match is visible.
waitForSelector(doc, css) ==
    LET m == Matches(doc, css) IN m # <<>> /\ doc[m[1]].visible

\* InputTextTool._run / _arun.
InputTextTool_run(pg, active, selector, nth, visible_only, scrollHidden, drv) ==
    LET ctx == resolveContext(active)
        doc == DocumentOf(pg, ctx)
        css == ParseCss(selector)
        locator == Matches(doc, css)
        element == locatorNth(locator, nth)
        timeout == Outcome("Timeout waiting for element", ctx, <<>>)
    IN  IF ~css.valid THEN Outcome("InputTextTool error", ctx, <<>>)
        ELSE IF ~waitForSelector(doc, css) THEN timeout
        ELSE IF Len(locator) = 0 THEN Outcome("No element found for selector", ctx, <<>>)
        \* scroll_into_view_if_needed waits for the element: there is none
        ELSE IF element = 0 THEN timeout
        ELSE IF ~doc[element].visible /\ scrollHidden = "timeout" THEN timeout
        ELSE LET scrolled == <<Event("scroll_into_view", element, 0)>>
             IN  IF ~doc[element].visible /\ visible_only
                 THEN Outcome("Element found but not visible", ctx, scrolled)
                 \* element.click() waits for the element to be visible
                 ELSE IF ~doc[element].visible \/ drv = "timeout"
                      THEN Outcome("Timeout waiting for element", ctx, scrolled)
                 ELSE IF drv = "error" THEN Outcome("InputTextTool error", ctx, scrolled)
                 ELSE Outcome("Entered text into element", ctx,
                              scrolled \o <<Event("click", element, 0),
                                            Event("type", element, 0)>>)

\* src.drag_to(tgt) done as pointer steps.
dragToByPointer(src, tgt) ==
    <<Event("mouse.move", src, 0), Event("mouse.down", 0, 0),
      Event("mouse.move", tgt, 0), Event("mouse.up", 0, 0)>>

\* src.drag_to(tgt, timeout=...): one call of the driver's drag.
dragTo(src, tgt) == <<Event("drag_to", src, tgt)>>

\* DragAndDropTool._run / _arun.
DragAndDropTool_run(pg, active, source_selector, target_selector, source_nth, target_nth, visible_only, scrollHidden, drv) ==
    LET ctx == resolveContext(active)
        doc == DocumentOf(pg, ctx)
        src_css == ParseCss(source_selector)
        tgt_css == ParseCss(target_selector)
        src_locator == Matches(doc, src_css)
        tgt_locator == Matches(doc, tgt_css)
        src == locatorNth(src_locator, source_nth)
        tgt == locatorNth(tgt_locator, target_nth)
        timeout == Outcome("Timeout waiting for element(s)", ctx, <<>>)
    IN  IF ~src_css.valid \/ ~tgt_css.valid THEN Outcome("DragAndDropTool error", ctx, <<>>)
        ELSE IF ~waitForSelector(doc, src_css) \/ ~waitForSelector(doc, tgt_css) THEN timeout
        ELSE IF Len(src_locator) = 0 THEN Outcome("No source element found", ctx, <<>>)
        ELSE IF Len(tgt_locator) = 0 THEN Outcome("No target element found", ctx, <<>>)
        \* scroll_into_view_if_needed waits for the element: there is none
        ELSE IF src = 0 THEN timeout
        ELSE IF ~doc[src].visible /\ scrollHidden = "timeout" THEN timeout
        ELSE IF tgt = 0 \/ (~doc[tgt].visible /\ scrollHidden = "timeout")
             THEN Outcome("Timeout waiting for element(s)", ctx,
                          <<Event("scroll_into_view", src, 0)>>)
        ELSE LET scrolled == <<Event("scroll_into_view", src, 0),
                               Event("scroll_into_view", tgt, 0)>>
             IN  IF visible_only /\ (~doc[src].visible \/ ~doc[tgt].visible)
                 THEN Outcome("Element found but not visible", ctx, scrolled)
                 \* drag_to waits for both elements to be visible
                 ELSE IF ~doc[src].visible \/ ~doc[tgt].visible \/ drv = "timeout"
                      THEN Outcome("Timeout waiting for element(s)", ctx, scrolled)
                 ELSE IF drv = "error" THEN Outcome("DragAndDropTool error", ctx, scrolled)
                 ELSE Outcome("Dragged element", ctx,
                              scrolled \o dragTo(src, tgt))

\* DragSliderTool._run / _arun: the bounding box of the one match of the selector, then
\* four pointer steps.  A locator with no match (the wait times out), with several
\* (strict mode) or with a hidden match (bounding_box() is None) raises.
DragSliderTool_run(pg, active, selector, drv) ==
    LET ctx == resolveContext(active)
        doc == DocumentOf(pg, ctx)
        css == ParseCss(selector)
        locator == Matches(doc, css)
        error == Outcome("DragSlider error", ctx, <<>>)
    IN  IF ~css.valid \/ Len(locator) # 1 THEN error
        ELSE IF ~doc[locator[1]].visible \/ drv # "ok" THEN error
        ELSE Outcome("Dragged slider", ctx,
                     <<Event("mouse.move", locator[1], 0), Event("mouse.down", 0, 0),
                       Event("mouse.move by x_offset", locator[1], 0),
                       Event("mouse.up", 0, 0)>>)

\* ClickTool._selector_effective: with visible_only the selector gets ">> visible=1".
selectorEffective(doc, css, visible_only) ==
    IF visible_only THEN VisibleMatches(doc, css) ELSE Matches(doc, css)

\* How page.click ends: as DriverEnds, where "timeout" is a PlaywrightTimeoutError with
\* the element still attached to the document (it is covered or does not settle) and
\* "detached" one raised because the element left the document after it was located.
ClickEnds == {"ok", "timeout", "error", "detached"}

\* The `except PlaywrightTimeoutError` clauses around page.click, with a synthetic click
\* dispatched on an element that is still attached.
clickTimedOutDispatches(status, ctx, element, click) ==
    IF click = "timeout"
    THEN Outcome("Clicked element", ctx, <<Event("dispatch_click", element, 0)>>)
    ELSE Outcome(status, ctx, <<>>)

\* The `except PlaywrightTimeoutError` clauses around page.click: return the message.
clickTimedOut(status, ctx, element, click) == Outcome(status, ctx, <<>>)

\* ClickTool._run / _arun.  `nav` is how the awaited navigation ends.
ClickTool_run(pg, active, selector, force, wait_for_navigation, visible_only, drv, nav) ==
    LET ctx == resolveContext(active)
        doc == DocumentOf(pg, ctx)
        css == ParseCss(selector)
        locator == selectorEffective(doc, css, visible_only)
        element == locatorFirst(locator, 0)
        \* page.click without force waits for the element to be visible
        click == IF ~doc[element].visible /\ ~force THEN "timeout" ELSE drv
        clicked == <<Event("click", element, 0)>>
    IN  IF ~css.valid THEN Outcome("Error locating element", ctx, <<>>)
        ELSE IF element = 0 THEN Outcome("Element not found", ctx, <<>>)
        ELSE IF ~doc[element].visible /\ ~force /\ visible_only
             THEN Outcome("Element found but not visible", ctx, <<>>)
        ELSE IF wait_for_navigation
             THEN IF click \in {"timeout", "detached"}
                  THEN clickTimedOut("Clicked element but navigation timed out", ctx,
                                     element, click)
                  ELSE IF click = "error" THEN Outcome("Error clicking element", ctx, <<>>)
                  ELSE IF nav = "timeout"
                       THEN Outcome("Clicked element but navigation timed out", ctx, clicked)
                  ELSE Outcome("Clicked element and navigated", ctx, clicked)
        ELSE IF click \in {"timeout", "detached"}
             THEN clickTimedOut("Unable to click element", ctx, element, click)
        ELSE IF click = "error" THEN Outcome("Error clicking element", ctx, <<>>)
        ELSE Outcome("Clicked element", ctx, clicked)

\* A selector argument that Python takes as false: None or the empty string.
NoSelector == {"None", ""}

\* scrollWithoutSelector with `else` for `elif x is not None or y is not None`.
scrollWithoutSelectorAlways(ctx, hasAmount) ==
    Outcome("Scrolled page", ctx, <<Event("window.scrollBy", 0, 0)>>)

\* The branches of ScrollTool._run without a selector.
scrollWithoutSelector(ctx, hasAmount) ==
    IF hasAmount
    THEN Outcome("Scrolled page", ctx, <<Event("window.scrollBy", 0, 0)>>)
    ELSE Outcome("No selector or scroll amount provided.", "none", <<>>)

\* `raise ValueError(...)` of a tool constructed without the browser its call needs.
Raised == Outcome("raises ValueError", "none", <<>>)

\* The statuses of a call that ends with an exception leaving the tool.
RaiseStatuses == {"raises ValueError", "raises TimeoutError"}

\* ScrollTool._run / _arun.  `browser`: the tool has the browser of the call's kind;
\* `hasAmount`: x or y is given.
ScrollTool_run(browser, pg, active, selector, hasAmount, visible_only) ==
    LET ctx == resolveContext(active)
        doc == DocumentOf(pg, ctx)
        css == ParseCss(selector)
        locator == Matches(doc, css)
        element == locatorNth(locator, 0)
    IN  IF ~browser THEN Raised
        ELSE IF selector \notin NoSelector
        THEN IF ~css.valid THEN Outcome("ScrollTool error", ctx, <<>>)
             ELSE IF ~waitForSelector(doc, css)
                  THEN Outcome("Timeout waiting for element", ctx, <<>>)
             ELSE IF Len(locator) = 0 THEN Outcome("No element found for selector", ctx, <<>>)
             ELSE IF visible_only /\ ~doc[element].visible
                  THEN Outcome("Element found but not visible", ctx, <<>>)
             ELSE IF hasAmount
                  THEN Outcome("Scrolled element", ctx, <<Event("el.scrollBy", element, 0)>>)
             ELSE Outcome("Scrolled to element", ctx,
                          <<Event("scroll_into_view", element, 0)>>)
        ELSE scrollWithoutSelector(ctx, hasAmount)

\* PressKeyTool._run / _arun.
PressKeyTool_run(browser, pg, active, selector, visible_only, drv) ==
    LET ctx == resolveContext(active)
        doc == DocumentOf(pg, ctx)
        css == ParseCss(selector)
        element == locatorFirst(selectorEffective(doc, css, visible_only), 0)
    IN  IF ~browser THEN Raised
        ELSE IF selector \notin NoSelector
        THEN IF ~css.valid THEN Outcome("Error pressing key", ctx, <<>>)
             \* page.focus waits for a match of the effective selector
             ELSE IF element = 0 THEN Outcome("Unable to focus element", ctx, <<>>)
             ELSE IF drv # "ok"
                  THEN Outcome("Error pressing key", ctx, <<Event("focus", element, 0)>>)
             ELSE Outcome("Pressed key on element", ctx,
                          <<Event("focus", element, 0), Event("press", element, 0)>>)
        ELSE IF drv # "ok" THEN Outcome("Error pressing key", ctx, <<>>)
        ELSE Outcome("Pressed key", ctx, <<Event("keyboard.press", 0, 0)>>)

\* GetElementsTool._run / _arun: document.querySelectorAll(selector) in the page.
GetElementsTool_run(pg, active, selector) ==
    LET ctx == resolveContext(active)
        css == ParseCss(selector)
    IN  IF ~css.valid THEN Outcome("Error finding elements", ctx, <<>>)
        ELSE Outcome("elements", ctx, <<>>)

\* ExtractDOMTreeTool._run / _arun: page.evaluate of the page script.
ExtractDOMTreeTool_run(pg, active, body) ==
    LET ctx == resolveContext(active)
    IN  IF DomExtractScript(body).body.type = "null"
        THEN Outcome("snapshot without body", ctx, <<>>)
        ELSE Outcome("snapshot", ctx, <<>>)

(***************************************************************************)
(* The frame switch of switch_frame.py.  The outcome of a switch is the    *)
(* status returned and the value of the page's _lc_active_frame attribute  *)
(* after the call ("none" = the attribute is absent: top-level document).  *)
(***************************************************************************)
Identifiers == {"DEFAULT_CONTENT", "parent_frame", "pay", "#widget", "widget", ".ads",
                "#q", "ghost"}

\* name_or_selector.upper()
Upper(s) ==
    CASE s = "parent_frame" -> "PARENT_FRAME"
      [] s = "pay" -> "PAY"
      [] s = "#widget" -> "#WIDGET"
      [] s = "widget" -> "WIDGET"
      [] s = ".ads" -> ".ADS"
      [] s = "#q" -> "#Q"
      [] s = "ghost" -> "GHOST"
      [] OTHER -> s

\* name_or_selector.replace('#', '')
StripHash(s) ==
    CASE s = "#widget" -> "widget"
      [] s = "#q" -> "q"
      [] OTHER -> s

\* name_or_selector.startswith(".") and not name_or_selector.startswith("iframe.")
StartsWithDot(s) == s \in {".ads"}

\* A class selector's class name.
ClassOf(s) == CASE s = ".ads" -> "ads" [] OTHER -> ""

Switched(status, frame, via) == [status |-> status, active |-> frame, via |-> via]

\* What the iframe's content frame is at a call: "ok" (attached), "none"
\* (content_frame() gives None), "error" (fetching it raises or times out).
ContentFrames == {"ok", "none", "error"}

\* page.frame(name=...): the attached frame of that name, "none" when there is none.
pageFrame(pg, name, content) ==
    LET doc == TopDocument(pg)
    IN  IF content = "ok"
           /\ \E i \in 1..Len(doc) : doc[i].tag = "iframe" /\ doc[i].name = name
        THEN name
        ELSE "none"

\* potential_selectors: the identifier as CSS, iframe[name='...'], iframe#..., and for
\* a class selector iframe.class ("iframe#.x" is no selector).
potentialSelectors(name_or_selector) ==
    <<ParseCss(name_or_selector),
      Css("iframe", "", "", name_or_selector),
      IF StartsWithDot(StripHash(name_or_selector)) THEN InvalidCss
      ELSE Css("iframe", StripHash(name_or_selector), "", "")>>
    \o (IF StartsWithDot(name_or_selector)
        THEN <<Css("iframe", "", ClassOf(name_or_selector), "")>>
        ELSE <<>>)

\* The loop over potential_selectors of _arun: the index of the first guess whose first
\* match is an <iframe>, 0 when no guess gives one.  A guess that raises is passed over.
RECURSIVE findIframe(_, _, _)
findIframe(doc, guesses, k) ==
    IF k > Len(guesses) THEN 0
    ELSE LET m == IF guesses[k].valid THEN Matches(doc, guesses[k]) ELSE <<>>
         IN  IF m # <<>> /\ doc[m[1]].tag = "iframe" THEN k
             ELSE findIframe(doc, guesses, k + 1)

\* The same loop in _handle_switch on a sync page: page.query_selector(sel, timeout=2000)
\* raises TypeError (query_selector takes no timeout), which the loop passes over.
findIframeSync(doc, guesses, k) == 0

\* The sentinel branch without the delattr.
switchToSentinelKeepsFrame(active) ==
    Switched("Switched back to the main page content.", active, "sentinel")

\* The sentinel branch: drop the attribute and report.
switchToSentinel(active) ==
    Switched("Switched back to the main page content.", "none", "sentinel")

\* The failure returns with the attribute dropped first.
switchFailedResets(status, active, via) == Switched(status, "none", via)

\* A return of a failure status: the attribute is not touched.
switchFailed(status, active, via) == Switched(status, active, via)

\* selector_detail = f"by selector '{sel}'", for the guess of each position.
BySelector == <<"by selector: the identifier", "by selector: iframe[name=...]",
                "by selector: iframe#...", "by selector: iframe.class">>

\* What follows the by-name lookup, given the guess that found an iframe element.
switchBySelector(content, active, name_or_selector, found) ==
    IF found = 0
    THEN switchFailed("Could not find an iframe element", active, "none")
    ELSE IF content = "none"
         THEN switchFailed("Found iframe element, but could not access its content frame",
                           active, "selector")
    ELSE IF content = "error"
         THEN switchFailed("Error getting content frame for iframe", active, "selector")
    ELSE Switched("Successfully switched to frame", "pay", BySelector[found])

\* SwitchFrameTool._handle_switch, as _run calls it (a sync page).
SwitchFrameTool_handle_switch(pg, active, name_or_selector, content) ==
    IF Upper(name_or_selector) \in {"PARENT_FRAME", "DEFAULT_CONTENT"}
    THEN switchToSentinel(active)
    ELSE LET resolved_frame == pageFrame(pg, name_or_selector, content)
         IN  IF resolved_frame # "none"
             THEN Switched("Successfully switched to frame", resolved_frame,
                           "by name attribute")
             ELSE switchBySelector(content, active, name_or_selector,
                                   findIframeSync(TopDocument(pg),
                                                  potentialSelectors(name_or_selector), 1))

\* SwitchFrameTool._arun.
SwitchFrameTool_arun(pg, active, name_or_selector, content) ==
    IF Upper(name_or_selector) \in {"PARENT_FRAME", "DEFAULT_CONTENT"}
    THEN switchToSentinel(active)
    ELSE LET resolved_frame == pageFrame(pg, name_or_selector, content)
         IN  IF resolved_frame # "none"
             THEN Switched("Successfully switched to frame", resolved_frame,
                           "by name attribute")
             ELSE switchBySelector(content, active, name_or_selector,
                                   findIframe(TopDocument(pg),
                                              potentialSelectors(name_or_selector), 1))

(***************************************************************************)
(* Spec: the tools called one at a time on a page.  `last` is the last     *)
(* call: the tool, its arguments, the active frame before it and its       *)
(* outcome.                                                                *)
(***************************************************************************)
Selectors == {".item", ".slot", "#q", "#none"}
DriverEnds == {"ok", "timeout", "error"}

Call(tool, args, before, out) ==
    [tool |-> tool, args |-> args, before |-> before, status |-> out.status,
     ctx |-> out.ctx, events |-> out.events]

\* frameAfterTool that drops the active frame when the call did not find its element.
frameAfterToolDropsWhenNotFound(active, status) ==
    IF status \in {"Element not found", "No element found for selector"} THEN "none"
    ELSE active

\* The page's _lc_active_frame after a call of a tool other than switch_to_frame:
\* none of them sets or deletes the attribute, whatever the call returns.
frameAfterTool(active, status) == active

Click ==
    /\ \E selector \in {".item", "#none"}, force, wait_for_navigation,
          visible_only \in BOOLEAN,
          drv \in ClickEnds, nav \in {"navigated", "timeout"} :
          last' = Call("click_element",
                       [selector |-> selector, force |-> force,
                        wait_for_navigation |-> wait_for_navigation,
                        visible_only |-> visible_only, drv |-> drv],
                       activeFrame,
                       ClickTool_run(page, activeFrame, selector, force,
                                     wait_for_navigation, visible_only, drv, nav))
    /\ activeFrame' = frameAfterTool(activeFrame, last'.status)
    /\ UNCHANGED <<page, domVars, lockVars>>

InputText ==
    /\ \E selector \in {".item", "#none"}, nth \in 0..MaxNth, visible_only \in BOOLEAN,
          scrollHidden \in {"ok", "timeout"}, drv \in DriverEnds :
          last' = Call("input_text",
                       [selector |-> selector, nth |-> nth, visible_only |-> visible_only],
                       activeFrame,
                       InputTextTool_run(page, activeFrame, selector, nth, visible_only,
                                         scrollHidden, drv))
    /\ activeFrame' = frameAfterTool(activeFrame, last'.status)
    /\ UNCHANGED <<page, domVars, lockVars>>

DragAndDrop ==
    /\ \E source_selector \in {".item"}, target_selector \in {".slot"},
          source_nth, target_nth \in 0..MaxNth, visible_only \in BOOLEAN,
          scrollHidden \in {"ok", "timeout"}, drv \in DriverEnds :
          last' = Call("drag_and_drop",
                       [source_selector |-> source_selector,
                        target_selector |-> target_selector,
                        source_nth |-> source_nth, target_nth |-> target_nth,
                        visible_only |-> visible_only],
                       activeFrame,
                       DragAndDropTool_run(page, activeFrame, source_selector,
                                           target_selector, source_nth, target_nth,
                                           visible_only, scrollHidden, drv))
    /\ activeFrame' = frameAfterTool(activeFrame, last'.status)
    /\ UNCHANGED <<page, domVars, lockVars>>

DragSlider ==
    /\ \E selector \in {"#q", ".item"}, drv \in DriverEnds :
          last' = Call("drag_slider", [selector |-> selector], activeFrame,
                       DragSliderTool_run(page, activeFrame, selector, drv))
    /\ activeFrame' = frameAfterTool(activeFrame, last'.status)
    /\ UNCHANGED <<page, domVars, lockVars>>

Scroll ==
    /\ \E browser \in BOOLEAN, selector \in NoSelector \cup {".item", "#none"},
          hasAmount, visible_only \in BOOLEAN :
          last' = Call("scroll_page",
                       [browser |-> browser, selector |-> selector,
                        hasAmount |-> hasAmount, visible_only |-> visible_only],
                       activeFrame,
                       ScrollTool_run(browser, page, activeFrame, selector, hasAmount,
                                      visible_only))
    /\ activeFrame' = frameAfterTool(activeFrame, last'.status)
    /\ UNCHANGED <<page, domVars, lockVars>>

PressKey ==
    /\ \E browser \in BOOLEAN, selector \in NoSelector \cup {"#q", ".item"},
          visible_only \in BOOLEAN, drv \in DriverEnds :
          last' = Call("press_key",
                       [browser |-> browser, selector |-> selector,
                        visible_only |-> visible_only],
                       activeFrame,
                       PressKeyTool_run(browser, page, activeFrame, selector, visible_only,
                                        drv))
    /\ activeFrame' = frameAfterTool(activeFrame, last'.status)
    /\ UNCHANGED <<page, domVars, lockVars>>

GetElements ==
    /\ \E selector \in Selectors :
          last' = Call("get_elements", [selector |-> selector], activeFrame,
                       GetElementsTool_run(page, activeFrame, selector))
    /\ activeFrame' = frameAfterTool(activeFrame, last'.status)
    /\ UNCHANGED <<page, domVars, lockVars>>

ExtractDOMTree ==
    /\ last' = Call("extract_dom_tree", [selector |-> "None"], activeFrame,
                    ExtractDOMTreeTool_run(page, activeFrame, dom))
    /\ activeFrame' = frameAfterTool(activeFrame, last'.status)
    /\ UNCHANGED <<page, domVars, lockVars>>

\* The tools whose _run and _arun begin with `if self.<kind>_browser is None: raise
\* ValueError(...)`, scroll_page and press_key apart (ScrollTool_run, PressKeyTool_run).
CheckedTools == {"click_element", "input_text", "drag_and_drop", "get_elements",
                 "extract_dom_tree"}

\* The tools whose _run calls page.wait_for_load_state("load") before its try block.
LoadWaitingTools == {"input_text", "drag_and_drop"}

\* The statements of _run / _arun that precede the try block: "entered" when the try
\* block is reached, else the exception that leaves the call.  `browser`: the tool has
\* the browser of the call's kind; `load`: how the wait for the load state ends.
entry(tool, mode, browser, load) ==
    IF ~browser THEN "raises ValueError"
    ELSE IF mode = "sync" /\ tool \in LoadWaitingTools /\ load = "timeout"
         THEN "raises TimeoutError"
    ELSE "entered"

\* Arguments of a call that does not reach its try block.
ArgsOf(tool) ==
    CASE tool = "click_element" ->
             [selector |-> ".item", force |-> FALSE, wait_for_navigation |-> FALSE,
              visible_only |-> TRUE, drv |-> "ok"]
      [] tool = "input_text" -> [selector |-> ".item", nth |-> 0, visible_only |-> TRUE]
      [] tool = "drag_and_drop" ->
             [source_selector |-> ".item", target_selector |-> ".slot",
              source_nth |-> 0, target_nth |-> 0, visible_only |-> TRUE]
      [] OTHER -> [selector |-> ".item"]

\* A call that ends in the statements before its try block.
CallRaises ==
    /\ \E tool \in CheckedTools, mode \in {"sync", "async"}, browser \in BOOLEAN,
          load \in {"ok", "timeout"} :
          /\ entry(tool, mode, browser, load) # "entered"
          /\ last' = Call(tool, ArgsOf(tool), activeFrame,
                          Outcome(entry(tool, mode, browser, load), "none", <<>>))
    /\ activeFrame' = frameAfterTool(activeFrame, last'.status)
    /\ UNCHANGED <<page, domVars, lockVars>>

Switch(name_or_selector, mode, content, before, out) ==
    [tool |-> "switch_to_frame",
     args |-> [name_or_selector |-> name_or_selector, mode |-> mode, content |-> content,
               via |-> out.via],
     before |-> before, status |-> out.status, ctx |-> "none", events |-> <<>>]

SwitchFrameRun ==
    /\ \E name_or_selector \in Identifiers, content \in ContentFrames :
          LET out == SwitchFrameTool_handle_switch(page, activeFrame, name_or_selector,
                                                   content)
          IN  /\ activeFrame' = out.active
              /\ last' = Switch(name_or_selector, "sync", content, activeFrame, out)
    /\ UNCHANGED <<page, domVars, lockVars>>

SwitchFrameArun ==
    /\ \E name_or_selector \in Identifiers, content \in ContentFrames :
          LET out == SwitchFrameTool_arun(page, activeFrame, name_or_selector, content)
          IN  /\ activeFrame' = out.active
              /\ last' = Switch(name_or_selector, "async", content, activeFrame, out)
    /\ UNCHANGED <<page, domVars, lockVars>>

\* The document the extractor tool of Spec reads.
SmallShape == [wideDepth |-> 3, extra |-> -1, special |-> "searchForm", at |-> "first"]

Init ==
    /\ page \in Pages
    /\ activeFrame = "none"
    /\ last = Call("none", [selector |-> "None"], "none", Outcome("none", "none", <<>>))
    /\ shape = SmallShape
    /\ dom = PageOf(SmallShape)
    /\ calls = <<>>
    /\ LockIdle

Next ==
    \/ Click
    \/ InputText
    \/ DragAndDrop
    \/ DragSlider
    \/ Scroll
    \/ PressKey
    \/ GetElements
    \/ ExtractDOMTree
    \/ CallRaises
    \/ SwitchFrameRun
    \/ SwitchFrameArun

Spec == Init /\ [][Next]_vars

(***************************************************************************)
(* SpecLock: concurrent calls of the wrapped tools.  Each caller is a task *)
(* of the event loop; a task is idle, waiting for the lock, running the    *)
(* tool, or in the one-second sleep that follows a tool that returned.     *)
(***************************************************************************)
\* with_lock is entered: the lock is taken at once or the caller queues.
CallTool(t) ==
    /\ task[t] = "idle"
    /\ IF acquiresAtOnce(tool_lock)
       THEN /\ tool_lock' = acquireAtOnce(tool_lock)
            /\ task' = [task EXCEPT ![t] = "running"]
       ELSE /\ tool_lock' = enqueue(tool_lock, t)
            /\ task' = [task EXCEPT ![t] = "waiting"]
    /\ UNCHANGED <<outcome, domVars, toolVars>>

\* The woken head of the queue is resumed and enters the body of with_lock.
Resume(t) ==
    /\ task[t] = "waiting"
    /\ tool_lock.woken
    /\ Head(tool_lock.waiters) = t
    /\ tool_lock' = acquireWoken(tool_lock)
    /\ task' = [task EXCEPT ![t] = "running"]
    /\ UNCHANGED <<outcome, domVars, toolVars>>

\* The tool's coroutine returns; with_lock sleeps one second, still holding the lock.
ToolReturns(t) ==
    /\ task[t] = "running"
    /\ task' = [task EXCEPT ![t] = "sleeping"]
    /\ UNCHANGED <<tool_lock, outcome, domVars, toolVars>>

\* The sleep ends: with_lock returns the result and leaves the lock.
SleepEnds(t) ==
    /\ task[t] = "sleeping"
    /\ tool_lock' = exitWithLock(tool_lock, "returned")
    /\ task' = [task EXCEPT ![t] = "idle"]
    /\ outcome' = [outcome EXCEPT ![t] = "returned"]
    /\ UNCHANGED <<domVars, toolVars>>

\* The tool's coroutine raises: the exception leaves with_lock through the lock's exit.
ToolRaises(t) ==
    /\ task[t] = "running"
    /\ tool_lock' = exitWithLock(tool_lock, "raised")
    /\ task' = [task EXCEPT ![t] = "idle"]
    /\ outcome' = [outcome EXCEPT ![t] = "raised"]
    /\ UNCHANGED <<domVars, toolVars>>

InitLock ==
    /\ LockIdle
    /\ ToolsIdle
    /\ shape = SmallShape
    /\ dom = PageOf(SmallShape)
    /\ calls = <<>>

NextLock ==
    \E t \in Tasks :
        \/ CallTool(t)
        \/ Resume(t)
        \/ ToolReturns(t)
        \/ SleepEnds(t)
        \/ ToolRaises(t)

\* The event loop resumes every ready task, and a tool's coroutine ends, by a return
\* or by an exception; nothing obliges a caller to call again.
LockFairness ==
    \A t \in Tasks :
        /\ WF_vars(Resume(t))
        /\ WF_vars(ToolReturns(t) \/ ToolRaises(t))
        /\ WF_vars(SleepEnds(t))

SpecLock == InitLock /\ [][NextLock]_vars /\ LockFairness

(***************************************************************************)
(* Properties of the snapshot tree (SpecDom).                              *)
(***************************************************************************)
\* The node summaries of a result tree, the root included.
RECURSIVE summariesOf(_)
summariesOf(r) ==
    IF r.type # "node" THEN {}
    ELSE {r} \cup UNION {summariesOf(r.children[i]) : i \in 1..Len(r.children)}

\* The DOM node at a path below the body.
RECURSIVE nodeAt(_, _)
nodeAt(node, path) ==
    IF path = <<>> THEN node ELSE nodeAt(node.childNodes[Head(path)], Tail(path))

\* The paths of the elements of a document.
RECURSIVE elementPaths(_, _)
elementPaths(node, path) ==
    IF node.nodeType # "element" THEN {}
    ELSE {path} \cup UNION {elementPaths(node.childNodes[i], Append(path, i)) :
                              i \in 1..Len(node.childNodes)}

\* The snapshot trees returned since the page last changed.
Bodies == {calls[i].body : i \in 1..Len(calls)}
Summaries == UNION {summariesOf(b) : b \in Bodies}

depthOf(n) == Len(n.path)
markersOf(n) == {i \in 1..Len(n.children) : n.children[i].type = "truncated"}
\* The entries of `children` made from a child node: node summaries and text fragments.
keptOf(n) == {i \in 1..Len(n.children) : n.children[i].type # "truncated"}
\* The children loop of n went past the cap: it kept cap entries and the DOM node has
\* a child node after the one the last of them was made from.
pastCap(n) ==
    /\ Cardinality(keptOf(n)) = maxChildren(depthOf(n))
    /\ \E i \in keptOf(n) :
          n.children[i].path[Len(n.children[i].path)] < Len(nodeAt(dom, n.path).childNodes)
          /\ \A j \in keptOf(n) : j <= i

\* C1 as claimed: at every node of the snapshot the length of `children`, markers
\* included, is at most the cap of the node's depth.
C1_ChildrenWithinCap ==
    \A n \in Summaries : Len(n.children) <= maxChildren(depthOf(n))

\* C1 as amended: at every node of the snapshot `children` holds at most cap(depth)
\* node summaries and text fragments and at most one truncation marker, which comes
\* last and after cap(depth) of them, so its length is at most cap(depth) + 1.
C1_KeptWithinCap ==
    \A n \in Summaries :
        /\ Cardinality(keptOf(n)) <= maxChildren(depthOf(n))
        /\ Cardinality(markersOf(n)) <= 1
        /\ \A i \in markersOf(n) :
               i = Len(n.children) /\ Cardinality(keptOf(n)) = maxChildren(depthOf(n))
        /\ Len(n.children) <= maxChildren(depthOf(n)) + 1

C1_Witness ==
    \E n \in Summaries : Len(n.children) = maxChildren(depthOf(n)) + 1

reached(b, path) ==
    /\ path # <<>>
    /\ Len(path) <= maxDepth
    /\ \E n \in summariesOf(b) :
          /\ n.path = SubSeq(path, 1, Len(path) - 1)
          /\ Cardinality({i \in keptOf(n) :
                            n.children[i].path[Len(path)] < path[Len(path)]})
               < maxChildren(depthOf(n))

\* C3 as claimed: every landmark element of the document appears in the snapshot tree.
C3_LandmarksAppear ==
    \A b \in Bodies : \A path \in elementPaths(dom, <<>>) :
        isLandmark(nodeAt(dom, path)) => \E n \in summariesOf(b) : n.path = path

\* C3 as amended: every landmark element that the traversal reaches within the depth
\* limit, and whose tag is not one of the tags skipped at depth > 1, appears in the
\* snapshot tree, also when it is not visible in the viewport.
C3_ReachedLandmarksAppear ==
    \A b \in Bodies : \A path \in elementPaths(dom, <<>>) :
        (/\ isLandmark(nodeAt(dom, path))
         /\ reached(b, path)
         /\ nodeAt(dom, path).tagName \notin skippedTags)
        => \E n \in summariesOf(b) : n.path = path

C3_Witness ==
    \E b \in Bodies : \E n \in summariesOf(b) :
        /\ n.path # <<>>
        /\ isLandmark(nodeAt(dom, n.path))
        /\ ~isVisibleInViewport(nodeAt(dom, n.path))
        /\ ~isInteractive(nodeAt(dom, n.path))

candidateApplies(el, k) ==
    CASE k = 1 -> hasAttribute(el, "id") /\ el.attrs["id"] # ""
      [] k = 2 -> hasAttribute(el, "name") /\ el.attrs["name"] # ""
      [] k = 3 -> hasAttribute(el, "data-testid") /\ el.attrs["data-testid"] # ""
      [] k = 4 -> /\ el.tagName \in {"button", "a"}
                  /\ Trim(innerText(el)) # <<>>
                  /\ Len(Trim(innerText(el))) < 20
      [] k = 5 -> /\ el.tagName = "input"
                  /\ hasAttribute(el, "type") /\ el.attrs["type"] # ""

candidate(el, k) ==
    CASE k = 1 -> [by |-> "id", tag |-> "", value |-> <<el.attrs["id"]>>]
      [] k = 2 -> [by |-> "name", tag |-> el.tagName, value |-> <<el.attrs["name"]>>]
      [] k = 3 -> [by |-> "data-testid", tag |-> "", value |-> <<el.attrs["data-testid"]>>]
      [] k = 4 -> [by |-> "has-text", tag |-> el.tagName, value |-> Trim(innerText(el))]
      [] k = 5 -> [by |-> "type", tag |-> "input", value |-> <<el.attrs["type"]>>]

applicable(el) == {k \in 1..5 : candidateApplies(el, k)}

\* C18: the selectors of an interactive node are the first three of the candidates
\* that apply to its element, in the order #id, tag[name], [data-testid], text-anchored,
\* input[type]: at most 3, and none when no candidate applies.
C18_SelectorsAreFirstThreeCandidates ==
    \A n \in Summaries :
        n.interactive =>
            LET el == nodeAt(dom, n.path)
                rank(k) == Cardinality({j \in applicable(el) : j <= k})
            IN  /\ Len(n.selectors) <= 3
                /\ Len(n.selectors)
                     = (IF Cardinality(applicable(el)) < 3
                        THEN Cardinality(applicable(el)) ELSE 3)
                /\ \A k \in applicable(el) :
                       rank(k) <= 3 => n.selectors[rank(k)] = candidate(el, k)

\* An interactive node to whose element four candidates apply and that lists three.
C18_Witness ==
    \E n \in Summaries :
        /\ n.interactive
        /\ Cardinality(applicable(nodeAt(dom, n.path))) = 4
        /\ Len(n.selectors) = 3

\* The paths of the <form> elements of the document, and whether a path lies in one.
formPaths == {path \in elementPaths(dom, <<>>) : nodeAt(dom, path).tagName = "form"}
inFormAt(path) ==
    \E k \in 0..(Len(path) - 1) : SubSeq(path, 1, k) \in formPaths

inputPaths == {path \in elementPaths(dom, <<>>) : nodeAt(dom, path).tagName = "input"}

\* The pairs of a search heuristic and the path of an input it matches.
searchHits ==
    {h \in (1..Len(searchSelectors)) \X inputPaths :
        matchesSearchSelector(searchSelectors[h[1]],
                              [el |-> nodeAt(dom, h[2]), inForm |-> inFormAt(h[2])])}

\* The paths of the elements that have a node in a snapshot tree.
treePaths(b) == {n.path : n \in summariesOf(b)}

\* C19: whatever the tree traversal pruned, truncated or cut by depth, `forms` has one
\* entry for every <form> of the document, and `searchBoxes` holds three (or all, when
\* fewer) of the matches of the search heuristics in the document, each entry the
\* input of a match.
C19_FormsAndSearchBoxesOfDocument ==
    LET forms == formPaths
        hits == searchHits
    IN  \A i \in 1..Len(calls) :
        /\ Len(calls[i].forms) = Cardinality(forms)
        /\ \A path \in forms :
               \E j \in 1..Len(calls[i].forms) :
                   calls[i].forms[j].id = getAttribute(nodeAt(dom, path), "id")
        /\ Len(calls[i].searchBoxes)
             = (IF Cardinality(hits) < 3 THEN Cardinality(hits) ELSE 3)
        /\ \A j \in 1..Len(calls[i].searchBoxes) :
               \E h \in hits :
                   /\ calls[i].searchBoxes[j].selector = searchSelectors[h[1]]
                   /\ calls[i].searchBoxes[j].id = getAttribute(nodeAt(dom, h[2]), "id")
                   /\ calls[i].searchBoxes[j].name = getAttribute(nodeAt(dom, h[2]), "name")

\* A snapshot whose tree has no node for a form of the document, nor for the search
\* input in it, and that lists the form and the search box.
C19_Witness ==
    \E i \in 1..Len(calls) :
        /\ calls[i].body.type = "node"
        /\ \E path \in formPaths : path \notin treePaths(calls[i].body)
        /\ \E h \in searchHits : h[2] \notin treePaths(calls[i].body)
        /\ calls[i].forms # <<>>
        /\ Cardinality(searchHits) > 3
        /\ Len(calls[i].searchBoxes) = 3

\* The node summaries and text fragments of a result tree.
RECURSIVE entriesOf(_)
entriesOf(r) ==
    IF r.type = "text" THEN {r}
    ELSE IF r.type # "node" THEN {}
    ELSE {r} \cup UNION {entriesOf(r.children[i]) : i \in 1..Len(r.children)}

\* C20: no node summary or text fragment of a snapshot tree lies deeper than depth 4
\* (the body is at depth 0), however deep the document nests.
C20_DepthWithinMaximum ==
    \A b \in Bodies : \A e \in entriesOf(b) : Len(e.path) <= maxDepth

\* A node at depth 4 whose element has child elements and whose `children` is empty.
C20_Witness ==
    \E n \in Summaries :
        /\ depthOf(n) = maxDepth
        /\ \E i \in 1..Len(nodeAt(dom, n.path).childNodes) :
              nodeAt(dom, n.path).childNodes[i].nodeType = "element"
        /\ n.children = <<>>

(***************************************************************************)
(* Properties of the tools (Spec).                                         *)
(***************************************************************************)
\* The matches of the last call's selector argument `arg`, in document order, in the
\* document the call ran against.
lastMatches(arg) == Matches(DocumentOf(page, last.ctx), ParseCss(last.args[arg]))

ElementTools == {"click_element", "input_text", "drag_and_drop", "get_elements",
                 "extract_dom_tree"}

SentinelSwitch ==
    /\ last.tool = "switch_to_frame"
    /\ Upper(last.args.name_or_selector) \in {"PARENT_FRAME", "DEFAULT_CONTENT"}

\* C5: type-text with a selector that matches N elements acts on the nth match in
\* document order when nth < N, and returns the 'No element found' result when
\* nth >= N.
C5_NthMatchOrNotFound ==
    (last.tool = "input_text" /\ ParseCss(last.args.selector).valid) =>
        LET matches == Matches(TopDocument(page), ParseCss(last.args.selector))
        IN  IF last.args.nth < Len(matches)
            THEN \A i \in 1..Len(last.events) :
                     last.events[i].el = matches[last.args.nth + 1]
            ELSE last.status = "No element found for selector"

\* C6: in drag-and-drop the element dragged is the source_nth-th match of the source
\* selector in document order and the drop target is the target_nth-th match of the
\* target selector; a drag that is reported did happen, once.
C6_DragsNthOntoNth ==
    last.tool = "drag_and_drop" =>
        /\ \A i \in 1..Len(last.events) :
               last.events[i].op = "drag_to" =>
                   /\ last.args.source_nth < Len(lastMatches("source_selector"))
                   /\ last.args.target_nth < Len(lastMatches("target_selector"))
                   /\ last.events[i].el
                          = lastMatches("source_selector")[last.args.source_nth + 1]
                   /\ last.events[i].to
                          = lastMatches("target_selector")[last.args.target_nth + 1]
        /\ last.status = "Dragged element" =>
               Cardinality({i \in 1..Len(last.events) : last.events[i].op = "drag_to"}) = 1

\* A drag of the second of two or more source matches onto the second target match.
C6_Witness ==
    /\ last.tool = "drag_and_drop"
    /\ last.status = "Dragged element"
    /\ Len(lastMatches("source_selector")) >= 2
    /\ last.args.source_nth = 1
    /\ last.args.target_nth = 1

C8_SentinelResets ==
    SentinelSwitch =>
        /\ activeFrame = "none"
        /\ last.status = "Switched back to the main page content."

\* A sentinel switch made while a frame was active.
C8_Witness ==
    /\ SentinelSwitch
    /\ last.before = "pay"
    /\ activeFrame = "none"

\* C9: every click, type-text, drag-and-drop, get_elements and extract_dom_tree call
\* runs against the document of the active frame: the iframe's after a successful
\* switch, the top-level document after a sentinel switch.
C9_CallsRunInActiveFrame ==
    (last.tool \in ElementTools /\ last.ctx # "none") =>
        last.ctx = (IF activeFrame = "none" THEN "top" ELSE activeFrame)

SwitchSucceeded ==
    last.status \in {"Successfully switched to frame",
                     "Switched back to the main page content."}

SwitchFailures ==
    {"Could not find an iframe element",
     "Found iframe element, but could not access its content frame",
     "Error getting content frame for iframe"}

\* C10: a switch_to_frame call that does not report success returns one of the failure
\* statuses and leaves the active frame as it was before the call.
C10_FailedSwitchKeepsFrame ==
    (last.tool = "switch_to_frame" /\ ~SwitchSucceeded) =>
        /\ last.status \in SwitchFailures
        /\ activeFrame = last.before

\* A switch that found the iframe element but not its content frame, made while a
\* frame was active.
C10_Witness ==
    /\ last.tool = "switch_to_frame"
    /\ last.status = "Found iframe element, but could not access its content frame"
    /\ last.before = "pay"
    /\ activeFrame = "pay"

\* The guess the lookup order names as the winner: the first of potential_selectors
\* that is a selector and whose first match in the top-level document is an <iframe>;
\* 0 when there is none.
winningGuess(name_or_selector) ==
    LET doc == TopDocument(page)
        guesses == potentialSelectors(name_or_selector)
        wins(k) == /\ guesses[k].valid
                   /\ Matches(doc, guesses[k]) # <<>>
                   /\ doc[Matches(doc, guesses[k])[1]].tag = "iframe"
        winners == {k \in 1..Len(guesses) : wins(k)}
    IN  IF winners = {} THEN 0
        ELSE CHOOSE k \in winners : \A j \in winners : k <= j

\* C11: for a non-sentinel identifier whose iframe has an accessible content frame,
\* switch_to_frame takes the frame of that name when the by-name lookup finds one, and
\* otherwise the content frame of the first selector guess (the identifier,
\* iframe[name=...], iframe#..., iframe.class) whose match is an <iframe>; the active
\* frame becomes that frame and the status names the path used.
C11_NameThenFirstIframeGuess ==
    (last.tool = "switch_to_frame" /\ ~SentinelSwitch /\ last.args.content = "ok") =>
        LET id == last.args.name_or_selector
        IN  IF pageFrame(page, id, "ok") # "none"
            THEN /\ last.status = "Successfully switched to frame"
                 /\ activeFrame = pageFrame(page, id, "ok")
                 /\ last.args.via = "by name attribute"
            ELSE IF winningGuess(id) # 0
            THEN /\ last.status = "Successfully switched to frame"
                 /\ activeFrame = "pay"
                 /\ last.args.via = BySelector[winningGuess(id)]
            ELSE /\ last.status = "Could not find an iframe element"
                 /\ activeFrame = last.before

\* C11 for the calls of _arun alone.
C11_AsyncNameThenFirstIframeGuess ==
    (last.tool = "switch_to_frame" /\ last.args.mode = "async") =>
        C11_NameThenFirstIframeGuess

\* The last call is a click whose page.click was made and raised a timeout: the element
\* was located and passed the visibility gate.
PrimaryClickTimedOut ==
    /\ last.tool = "click_element"
    /\ last.args.drv \in {"timeout", "detached"}
    /\ last.status \notin {"Error locating element", "Element not found",
                           "Element found but not visible"}

eventsOf(op) == {i \in 1..Len(last.events) : last.events[i].op = op}

PointerSteps == {"mouse.move", "mouse.move by x_offset", "mouse.down", "mouse.up"}

\* The pointer and drag calls of the last call, in order.
RECURSIVE gestureFrom(_)
gestureFrom(i) ==
    IF i > Len(last.events) THEN <<>>
    ELSE (IF last.events[i].op \in PointerSteps \cup {"drag_to"}
          THEN <<last.events[i].op>> ELSE <<>>) \o gestureFrom(i + 1)

\* C13 as claimed: a successful drag-and-drop is the four pointer steps move to the
\* source, press, move to the target, release, and never one drag call of the driver.
C13_DragIsFourPointerSteps ==
    (last.tool = "drag_and_drop" /\ last.status = "Dragged element") =>
        gestureFrom(1) = <<"mouse.move", "mouse.down", "mouse.move", "mouse.up">>

\* C13 as the code has it: a successful drag-and-drop is one drag_to call of the driver
\* on the source element with the target element, made after both were scrolled into
\* view, without pointer steps of the tool's own; the four pointer steps (move to the
\* centre, press, move by the offset, release) are how drag_slider drags.
C13_DragIsOneDriverCall ==
    /\ (last.tool = "drag_and_drop" /\ last.status = "Dragged element") =>
           /\ gestureFrom(1) = <<"drag_to">>
           /\ last.events[Len(last.events)].op = "drag_to"
           /\ Len(last.events) = 3
           /\ last.events[1].op = "scroll_into_view"
           /\ last.events[2].op = "scroll_into_view"
    /\ (last.tool = "drag_slider" /\ last.status = "Dragged slider") =>
           gestureFrom(1)
               = <<"mouse.move", "mouse.down", "mouse.move by x_offset", "mouse.up">>

\* A drag-and-drop that was performed.
C13_Witness ==
    /\ last.tool = "drag_and_drop"
    /\ last.status = "Dragged element"
    /\ eventsOf("drag_to") # {}

\* The last call is a drag-and-drop whose selectors are valid and whose indices select
\* an element each; lastSource and lastTarget are those elements.
DragSelected ==
    /\ last.tool = "drag_and_drop"
    /\ last.status \notin RaiseStatuses
    /\ ParseCss(last.args.source_selector).valid
    /\ ParseCss(last.args.target_selector).valid
    /\ last.args.source_nth < Len(lastMatches("source_selector"))
    /\ last.args.target_nth < Len(lastMatches("target_selector"))

lastSource == lastMatches("source_selector")[last.args.source_nth + 1]
lastTarget == lastMatches("target_selector")[last.args.target_nth + 1]
bothVisible ==
    /\ DocumentOf(page, last.ctx)[lastSource].visible
    /\ DocumentOf(page, last.ctx)[lastTarget].visible

\* C14: with visible_only a drag-and-drop drags only when the selected source and the
\* selected target are both visible, and when either is not it drags nothing and
\* returns the found-but-not-visible outcome; without visible_only that outcome is
\* never returned.
C14_VisibilityGate ==
    DragSelected =>
        IF last.args.visible_only
        THEN /\ eventsOf("drag_to") # {} => bothVisible
             /\ ~bothVisible =>
                    /\ eventsOf("drag_to") = {}
                    /\ last.status = "Element found but not visible"
        ELSE last.status # "Element found but not visible"

\* The part of C14 about the drag itself: with visible_only nothing is dragged unless
\* both elements are visible, and found-but-not-visible is returned only by the gate.
C14_DragsOnlyVisible ==
    DragSelected =>
        /\ (last.args.visible_only /\ eventsOf("drag_to") # {}) => bothVisible
        /\ last.status = "Element found but not visible" =>
               last.args.visible_only /\ ~bothVisible /\ eventsOf("drag_to") = {}

NotFoundStatuses == {"Element not found", "No element found for selector",
                     "No source element found", "No target element found"}

TimeoutStatuses == {"Timeout waiting for element", "Timeout waiting for element(s)",
                    "Unable to click element", "Clicked element but navigation timed out"}

\* C15: a click, type-text or drag-and-drop whose selector matches no element returns
\* the not-found outcome of its tool, never a timeout, and no status is both a
\* not-found and a timeout status.
C15_ZeroMatchesIsNotFound ==
    /\ NotFoundStatuses \cap TimeoutStatuses = {}
    /\ (/\ last.tool \in {"click_element", "input_text"}
        /\ last.status \notin RaiseStatuses
        /\ ParseCss(last.args.selector).valid
        /\ lastMatches("selector") = <<>>) =>
           last.status = IF last.tool = "click_element" THEN "Element not found"
                         ELSE "No element found for selector"
    /\ (/\ last.tool = "drag_and_drop"
        /\ last.status \notin RaiseStatuses
        /\ ParseCss(last.args.source_selector).valid
        /\ ParseCss(last.args.target_selector).valid
        /\ lastMatches("source_selector") = <<>> \/ lastMatches("target_selector") = <<>>) =>
           last.status = IF lastMatches("source_selector") = <<>>
                         THEN "No source element found"
                         ELSE "No target element found"

\* The part of C15 that is about click: a click that reaches its try block and whose
\* selector matches no element returns "Element not found".
C15_ClickZeroMatchesIsNotFound ==
    (/\ last.tool = "click_element"
     /\ last.status \notin RaiseStatuses
     /\ ParseCss(last.args.selector).valid
     /\ lastMatches("selector") = <<>>) => last.status = "Element not found"

\* The last call is a click (without force) or type-text made with visible_only whose
\* selector selects an element that is not visible: for click the first match, for
\* type-text the nth.
SelectedHidden ==
    /\ last.tool \in {"click_element", "input_text"}
    /\ last.status \notin RaiseStatuses
    /\ last.args.visible_only
    /\ ParseCss(last.args.selector).valid
    /\ LET k == IF last.tool = "click_element" THEN 0 ELSE last.args.nth
       IN  /\ k < Len(lastMatches("selector"))
           /\ ~DocumentOf(page, last.ctx)[lastMatches("selector")[k + 1]].visible
    /\ last.tool = "click_element" => ~last.args.force

\* C16: with visible_only, a click or type-text whose selected element is not visible
\* returns the found-but-not-visible outcome and does not click or type.
C16_HiddenIsFoundNotVisible ==
    SelectedHidden =>
        /\ last.status = "Element found but not visible"
        /\ eventsOf("click") = {}
        /\ eventsOf("type") = {}

\* The part of C16 that holds for type-text: nothing is clicked or typed on a hidden
\* element when visible_only is set.
C16_TypeTextLeavesHiddenAlone ==
    (SelectedHidden /\ last.tool = "input_text") =>
        eventsOf("click") = {} /\ eventsOf("type") = {}

\* C17: every call of a tool ends by returning a status: no call ends with an exception
\* leaving the tool.
C17_EveryCallReturns ==
    last.status \notin RaiseStatuses

(***************************************************************************)
(* Properties of the tool lock (SpecLock).                                 *)
(***************************************************************************)
\* The calls that are inside the body of with_lock.
inFlight == {t \in Tasks : task[t] \in {"running", "sleeping"}}

\* C21: at most one wrapped tool execution is in flight at any time, the lock is free
\* whenever none is (a return and an exception both release it), and every waiting
\* call gets to run.
C21_OneInFlightAndNoCallWaitsForever ==
    /\ [](Cardinality(inFlight) <= 1)
    /\ [](inFlight = {} => ~tool_lock.locked)
    /\ \A t \in Tasks : (task[t] = "waiting") ~> (task[t] = "running")

\* A call that waited now runs, after the call it waited for ended with an exception,
\* while a third call waits.
C21_Witness ==
    \E t, u, w \in Tasks :
        /\ task[t] = "running"
        /\ outcome[u] = "raised" /\ task[u] = "idle"
        /\ task[w] = "waiting"
        /\ tool_lock.locked

(***************************************************************************)
(* Further properties of the click tool (Spec).                            *)
(***************************************************************************)
ClickedStatuses == {"Clicked element", "Clicked element and navigated",
                    "Clicked element but navigation timed out"}

\* A click with force on a selector whose matches all exist and are hidden, with a
\* driver that carries out the click it is asked for.
ForcedClickOnHidden ==
    /\ last.tool = "click_element"
    /\ last.status \notin RaiseStatuses
    /\ last.args.force
    /\ last.args.drv = "ok"
    /\ lastMatches("selector") # <<>>
    /\ \A i \in 1..Len(lastMatches("selector")) :
          ~DocumentOf(page, last.ctx)[lastMatches("selector")[i]].visible

\* C22: a click with force=True on a selector whose matching element exists but is
\* hidden clicks that element, with the tool's default visible_only setting (True).
C22_ForceClicksHidden ==
    (ForcedClickOnHidden /\ last.args.visible_only) =>
        /\ last.status \in ClickedStatuses
        /\ \E i \in eventsOf("click") : last.events[i].el = lastMatches("selector")[1]

\* The part of C22 that holds: with visible_only switched off, force clicks the hidden
\* first match.
C22_ForceClicksHiddenAmongAll ==
    (ForcedClickOnHidden /\ ~last.args.visible_only) =>
        /\ last.status \in ClickedStatuses
        /\ \E i \in eventsOf("click") : last.events[i].el = lastMatches("selector")[1]

(***************************************************************************)
(* Further properties of the snapshot tree (SpecDom).                      *)
(***************************************************************************)
\* The index, among the child nodes of n's DOM node, of the child node the entry i of
\* n.children was made from.
sourceOf(n, i) == n.children[i].path[Len(n.children[i].path)]
lastKept(n) == CHOOSE i \in keptOf(n) : \A j \in keptOf(n) : j <= i
\* The child nodes the loop of n never called extractNode on: those after the last kept.
unprocessed(n) == Len(nodeAt(dom, n.path).childNodes) - sourceOf(n, lastKept(n))
\* The child nodes of n's DOM node that no entry of n.children was made from.
withoutEntry(n) ==
    {k \in 1..Len(nodeAt(dom, n.path).childNodes) : \A i \in keptOf(n) : sourceOf(n, i) # k}

oneMarkerLast(n) ==
    /\ Cardinality(markersOf(n)) = 1
    /\ markersOf(n) = {Len(n.children)}
    /\ \A i, j \in keptOf(n) : i < j => sourceOf(n, i) < sourceOf(n, j)

\* C23 as claimed: when the cap of a node is exceeded there is exactly one truncation
\* marker, it is the last entry, and its count is the number of child nodes that were
\* left unprocessed.
C23_MarkerCountsUnprocessed ==
    \A n \in Summaries :
        pastCap(n) =>
            /\ oneMarkerLast(n)
            /\ n.children[Len(n.children)].omitted = unprocessed(n)

\* C23 as amended: when the cap of a node is exceeded there is exactly one truncation
\* marker, it is the last entry, and its count is the number of child nodes minus the
\* cap, that is the number of child nodes no entry was made from: the unprocessed ones
\* and the ones that were skipped before the cap was reached.
C23_MarkerCountsBeyondCap ==
    \A n \in Summaries :
        pastCap(n) =>
            /\ oneMarkerLast(n)
            /\ n.children[Len(n.children)].omitted
                  = Len(nodeAt(dom, n.path).childNodes) - maxChildren(depthOf(n))
            /\ n.children[Len(n.children)].omitted = Cardinality(withoutEntry(n))
            /\ n.children[Len(n.children)].omitted >= unprocessed(n)

\* The cap was exceeded after a child node had been skipped: the marker counts more
\* than the unprocessed child nodes.
C23_Witness ==
    \E n \in Summaries :
        /\ pastCap(n)
        /\ markersOf(n) # {}
        /\ n.children[Len(n.children)].omitted > unprocessed(n)

\* The node summaries of the snapshots whose tag is one of the tags skipped at depth > 1.
skippedTagNodes == {n \in Summaries : n.tag \in skippedTags}

\* C24 as claimed: no node with tag style, script, meta, svg, path or link appears in
\* a snapshot tree, at any depth and whatever its visibility or attributes.
C24_NoSkippedTagAnywhere ==
    \A n \in Summaries : n.tag \notin {"style", "script", "meta", "svg", "path", "link"}

\* C24 as amended: no node with one of those tags appears deeper than depth 1; a child
\* of the body with one of those tags that the traversal reaches appears in the tree
\* exactly when the visibility rule keeps it (it is visible in the viewport, or
\* interactive, or has an interactive descendant).
C24_NoSkippedTagBelowDepthOne ==
    /\ \A n \in skippedTagNodes : depthOf(n) <= 1
    /\ \A b \in Bodies : \A path \in elementPaths(dom, <<>>) :
          (Len(path) = 1 /\ nodeAt(dom, path).tagName \in skippedTags /\ reached(b, path))
          => ((\E n \in summariesOf(b) : n.path = path)
                 <=> ~skippedAsInvisible(nodeAt(dom, path)))

\* A visible svg child of the body is in the snapshot.
C24_Witness ==
    \E n \in skippedTagNodes :
        /\ depthOf(n) = 1
        /\ n.tag = "svg"
        /\ isVisibleInViewport(nodeAt(dom, n.path))

\* The div and span elements of the document that the traversal of b reaches at
\* depth > 1 and that the visibility rule does not drop.
containersReached(b) ==
    {path \in elementPaths(dom, <<>>) :
        /\ Len(path) > 1
        /\ nodeAt(dom, path).tagName \in {"div", "span"}
        /\ reached(b, path)
        /\ ~skippedAsInvisible(nodeAt(dom, path))}

keptIn(b, path) == \E n \in summariesOf(b) : n.path = path

\* C25 as claimed: a div or span reached at depth > 1 is kept whenever it has an
\* interactive descendant at any nesting level or at least 5 characters of own text.
C25_KeptWithAnyInteractiveDescendant ==
    \A b \in Bodies : \A path \in containersReached(b) :
        (\/ hasInteractiveDescendant(nodeAt(dom, path))
         \/ Len(Trim(ownText(nodeAt(dom, path)))) >= 5)
        => keptIn(b, path)

\* C25 as amended: a div or span reached at depth > 1 is kept exactly when it is
\* interactive itself, or one of its child elements is interactive, or its text
\* content, the text of its descendants included, has at least 5 characters after
\* trimming.
C25_KeptWithInteractiveChildOrText ==
    \A b \in Bodies : \A path \in containersReached(b) :
        keptIn(b, path)
        <=> (\/ isInteractive(nodeAt(dom, path))
             \/ \E i \in 1..Len(children(nodeAt(dom, path))) :
                   isInteractive(children(nodeAt(dom, path))[i])
             \/ Len(Trim(textContent(nodeAt(dom, path)))) >= 5)

\* A div whose only interactive element is a grandchild was reached and dropped, and
\* so was the input below it.
C25_Witness ==
    \E b \in Bodies : \E path \in containersReached(b) :
        /\ hasInteractiveDescendant(nodeAt(dom, path))
        /\ ~keptIn(b, path)
        /\ \A n \in summariesOf(b) : n.tag # "input"

\* C26: a node of the snapshot carries a position exactly when its element is visible
\* in the viewport and is interactive or at depth <= 1; every recorded position has
\* inViewport = true, and no non-interactive node deeper than depth 1 has a position.
C26_PositionWhenVisibleAndInteractiveOrShallow ==
    \A n \in Summaries :
        LET el == nodeAt(dom, n.path)
        IN  /\ (n.position # <<>>)
               <=> (isVisibleInViewport(el) /\ (isInteractive(el) \/ depthOf(n) <= 1))
            /\ Len(n.position) <= 1
            /\ \A i \in 1..Len(n.position) :
                  /\ n.position[i].inViewport = TRUE
                  /\ n.position[i].x = el.rect.left /\ n.position[i].y = el.rect.top
            /\ (~n.interactive /\ depthOf(n) > 1) => n.position = <<>>

\* One snapshot holds a visible non-interactive node below depth 1 without a position,
\* a visible interactive node below depth 1 with one, and an interactive node outside
\* the viewport without one.
C26_Witness ==
    \E b \in Bodies :
        /\ \E n \in summariesOf(b) :
              /\ depthOf(n) > 1 /\ ~n.interactive /\ n.position = <<>>
              /\ isVisibleInViewport(nodeAt(dom, n.path))
        /\ \E n \in summariesOf(b) : depthOf(n) > 1 /\ n.interactive /\ n.position # <<>>
        /\ \E n \in summariesOf(b) :
              /\ n.interactive /\ n.position = <<>>
              /\ ~isVisibleInViewport(nodeAt(dom, n.path))

InteractionTypes == {"link", "button", "input", "checkbox", "radio", "select", "clickable"}

\* C27 as claimed: the interactionType of every node marked interactive is one of
\* link, button, input, checkbox, radio, select, clickable, and a node that is not
\* interactive carries no interactionType.
C27_InteractionTypeInEnumeration ==
    \A n \in Summaries :
        IF n.interactive THEN n.interactionType \in InteractionTypes
        ELSE n.interactionType = "none"

\* C27 as amended: the interactionType of a node marked interactive is one of those
\* seven values or the fallback value interactive, which is given to every interactive
\* element that is no link, button, typed input, textarea or select and has no click
\* handler; a node that is not interactive carries no interactionType.
C27_InteractionTypeOrFallback ==
    \A n \in Summaries :
        LET el == nodeAt(dom, n.path)
        IN  IF n.interactive
            THEN /\ isInteractive(el)
                 /\ n.interactionType \in InteractionTypes \cup {"interactive"}
                 /\ n.interactionType = "interactive"
                       <=> /\ el.tagName \notin {"a", "button", "textarea", "select"}
                           /\ getAttribute(el, "role") \notin {"link", "button", "combobox"}
                           /\ ~(el.tagName = "input"
                                /\ getAttribute(el, "type")
                                      \in {"text", "search", "number", "email", "password",
                                           "checkbox", "radio", "submit", "button"})
                           /\ "onclick" \notin el.handlers
                           /\ ~hasAttribute(el, "onclick")
            ELSE ~isInteractive(el) /\ n.interactionType = "none"

\* A form in a snapshot: interactive, with the fallback interaction type, next to an
\* input with a type of the enumeration.
C27_Witness ==
    \E b \in Bodies :
        /\ \E n \in summariesOf(b) :
              n.tag = "form" /\ n.interactive /\ n.interactionType = "interactive"
        /\ \E n \in summariesOf(b) : n.interactive /\ n.interactionType = "input"

(***************************************************************************)
(* Further properties of the active frame (Spec).                          *)
(***************************************************************************)
\* The values of the slot: "none" is the top level, anything else a frame of the page.
ActiveFrameStates ==
    {"none"} \cup {TopDocument(page)[i].name :
                     i \in {j \in 1..Len(TopDocument(page)) : TopDocument(page)[j].tag = "iframe"}}

\* C28: the active frame is one slot, the top level or a frame, initially the top
\* level, and only a switch_to_frame call changes it: no other call, succeeding or
\* failing, does.
C28_OnlySwitchChangesFrame ==
    /\ activeFrame = "none"
    /\ [](activeFrame \in ActiveFrameStates)
    /\ [][last'.tool # "switch_to_frame" => activeFrame' = activeFrame]_vars

\* A call of another tool failed while a frame was active, and the frame is still
\* active.
C28_Witness ==
    /\ last.tool \in ElementTools \cup {"scroll_page", "press_key", "drag_slider"}
    /\ last.status \in NotFoundStatuses \cup RaiseStatuses
    /\ last.before = "pay"
    /\ activeFrame = "pay"

\* The two variants of the switch, started from the current page and active frame.
syncSwitch(name_or_selector, content) ==
    SwitchFrameTool_handle_switch(page, activeFrame, name_or_selector, content)
asyncSwitch(name_or_selector, content) ==
    SwitchFrameTool_arun(page, activeFrame, name_or_selector, content)
sameSwitch(name_or_selector, content) ==
    /\ syncSwitch(name_or_selector, content).status
          = asyncSwitch(name_or_selector, content).status
    /\ syncSwitch(name_or_selector, content).active
          = asyncSwitch(name_or_selector, content).active

\* C29: the synchronous and the asynchronous frame switch, started from the same
\* active frame and the same page, return the same status and leave the same active
\* frame, for every identifier.
C29_SyncAndAsyncSwitchAgree ==
    \A name_or_selector \in Identifiers, content \in ContentFrames :
        sameSwitch(name_or_selector, content)

\* The part of C29 that holds: the two variants agree on every identifier for which
\* the asynchronous one finds no iframe element through a selector guess.
C29_AgreeUnlessFoundBySelector ==
    \A name_or_selector \in Identifiers, content \in ContentFrames :
        asyncSwitch(name_or_selector, content).via \notin
            {BySelector[i] : i \in 1..Len(BySelector)} \cup {"selector"}
        => sameSwitch(name_or_selector, content)

\* C30: a click call returns a status beginning with "Clicked element" only if the
\* native click on the element completed in that call; when the native click timed out
\* or was rejected, with or without wait_for_navigation, the status reports a failure.
C30_ClickedOnlyAfterNativeClick ==
    last.tool = "click_element" =>
        /\ last.status \in ClickedStatuses => eventsOf("click") # {}
        /\ (PrimaryClickTimedOut \/ last.status = "Error clicking element")
              => last.status \notin ClickedStatuses

\* The part of C30 that holds: without wait_for_navigation a status beginning with
\* "Clicked element" is returned only after the native click completed.
C30_ClickedOnlyAfterNativeClickWithoutNavigation ==
    (last.tool = "click_element" /\ ~last.args.wait_for_navigation) =>
        /\ last.status \in ClickedStatuses => eventsOf("click") # {}
        /\ PrimaryClickTimedOut => last.status = "Unable to click element"

====
